---- MODULE Spec2Model ----
(***************************************************************************)
(* State-machine model of the table engine of egui_extras                  *)
(* (crates/egui_extras/src/table.rs, crates/egui_extras/src/row_resize.rs).*)
(*                                                                         *)
(* Lengths (f32 points in the source) are modelled as integers.            *)
(*   SpecBody : one call of a TableBody row-emission method                *)
(*              (row / rows / heterogeneous_rows) followed by the          *)
(*              scroll-target resolution of Table::body.                   *)
(*   Spec     : the frame loop of one grid (TableState::load,              *)
(*              TableBuilder::header, Table::body, TableState::store).     *)
(***************************************************************************)
EXTENDS Integers, Sequences, FiniteSets, TLC

VARIABLES
    tb,     \* the TableBody of the current body call and what it emitted
    grid,   \* the builder configuration of the grid (columns, resize flags)
    mem,    \* egui's id-keyed memory: TableState, ResizePreviewState, TableResizeInfo
    input,  \* egui's pointer state carried from frame to frame
    frame   \* what the last frame saw (its inputs and intermediate values)

vars == <<tb, grid, mem, input, frame>>

\* ---------------------------------------------------------------------------
\* Bounds of the model
\* ---------------------------------------------------------------------------
MaxRows == 3          \* rows of a height sequence / total_rows of uniform mode
MaxOffset == 5        \* vertical scroll offsets -1..MaxOffset
MaxViewport == 2      \* viewport heights 0..MaxViewport

\* f32::INFINITY, as a length larger than every length of the model
INFINITY == 1000000

\* ---------------------------------------------------------------------------
\* Option<T>, Rangef and small numeric helpers
\* ---------------------------------------------------------------------------
None == [some |-> FALSE]
Some(x) == [some |-> TRUE, v |-> x]

Min(a, b) == IF a <= b THEN a ELSE b
Max(a, b) == IF a >= b THEN a ELSE b

\* Rangef::new(min, max); Rangef::point(x) == Rangef::new(x, x)
Rangef(lo, hi) == [min |-> lo, max |-> hi]
RangefPoint(x) == Rangef(x, x)

\* f32::floor / f32::ceil of a quotient with a positive divisor
FloorDiv(a, b) == a \div b
CeilDiv(a, b) == -((-a) \div b)

\* `x as usize` of a float: negative values saturate to 0
AsUsize(x) == IF x < 0 THEN 0 ELSE x

\* usize::saturating_sub
SaturatingSub(a, b) == IF a >= b THEN a - b ELSE 0

RECURSIVE SumSeq(_)
SumSeq(s) == IF s = <<>> THEN 0 ELSE Head(s) + SumSeq(Tail(s))

\* all sequences over S of length at most n
SeqUpTo(S, n) == UNION {[1..k -> S] : k \in 0..n}

\* ---------------------------------------------------------------------------
\* TableBody: what a row-emission method emits into the layout
\* ---------------------------------------------------------------------------
\* add_buffer(height): one spacer block
Buffer(h) == [kind |-> "buffer", height |-> h]
\* add_row_content(TableRow {row_index, height, ..}): one rendered row
RowEmit(i, h) == [kind |-> "row", row_index |-> i, height |-> h]

\* The TableBody handed to add_body_contents by Table::body, with the arguments
\* of the one row-emission call made on it.
\*   mode             which method is called: row (once per element of heights),
\*                    rows(row_height_sans_spacing, total_rows) or
\*                    heterogeneous_rows(heights)
\*   spacing_y        layout.ui.spacing().item_spacing.y
\*   scroll_offset_y  TableBody::scroll_offset_y() == y_range.min - layout.rect.top()
\*   max_height       y_range.span()
\*   cursor_y0        layout.cursor.y when the method is entered
\*   pc               the position inside the call: "row", "rows", the three loops
\*                    of heterogeneous_rows ("skip", "visible", "below") and its
\*                    tail ("finish"), then "returned" (add_body_contents is
\*                    over) and "done" (Table::body resolved the scroll target)
NewTableBody(mode, heights, rh, total, sp, off, mh, str, base) ==
    [ mode |-> mode,
      heights |-> heights,
      row_height_sans_spacing |-> rh,
      total_rows |-> total,
      spacing_y |-> sp,
      scroll_offset_y |-> off,
      max_height |-> mh,
      scroll_to_row |-> str,
      cursor_y0 |-> base,
      pc |-> IF mode = "heterogeneous_rows" THEN "skip" ELSE mode,
      next |-> 0,                   \* elements pulled from enumerated_heights
      row_index |-> 0,              \* TableBody::row_index (row mode)
      cursor_y |-> IF mode = "row" THEN base ELSE 0,
      height_below_visible |-> 0,
      scroll_to_y_range |-> None,
      range_writes |-> 0,           \* assignments made to scroll_to_y_range
      emitted |-> <<>> ]

Heights == {1, 2}
Spacings == {0, 1}
Offsets == (-1)..MaxOffset
Viewports == 0..MaxViewport

\* The uniform-mode example of the specification: rows of height 20, 10000
\* rows, a viewport of 400 and a scroll offset of 205.
ExampleRows ==
    NewTableBody("rows", <<>>, 20, 10000, 0, 205, 400, None, 0)

\* scroll_to_row with the layout position (cursor_y0) it is resolved against:
\* a table whose body starts at y = 1 when a scroll target is requested
ScrollTargets ==
    {<<None, 0>>} \cup {<<Some(n), 1>> : n \in 0..(MaxRows + 1)}

TableBodies ==
    { NewTableBody("rows", <<>>, rh, total, sp, off, mh, t[1], t[2]) :
        rh \in Heights, total \in 0..MaxRows, sp \in Spacings, off \in Offsets,
        mh \in Viewports, t \in ScrollTargets }
    \cup
    { NewTableBody(m, hs, 0, 0, sp, off, mh, t[1], t[2]) :
        m \in {"row", "heterogeneous_rows"}, hs \in SeqUpTo(Heights, MaxRows),
        sp \in Spacings, off \in Offsets, mh \in Viewports, t \in ScrollTargets }
    \cup {ExampleRows}

\* `*self.scroll_to_y_range = Some(range)`
SetScrollRange(b, range) ==
    [b EXCEPT !.scroll_to_y_range = Some(range), !.range_writes = @ + 1]

\* StripLayout: how far cursor.y moves over one row of cells of the given
\* height (TableRow's drop calls layout.end_line()).
LayoutRowAdvance(height, sp) == height + sp

\* --- TableBody::row --------------------------------------------------------
RowCall(b) ==
    LET height == b.heights[b.row_index + 1]
        top_y == b.cursor_y
        bottom_y == top_y + LayoutRowAdvance(height, b.spacing_y)
        b1 == [b EXCEPT !.emitted = Append(@, RowEmit(b.row_index, height)),
                        !.cursor_y = bottom_y]
        b2 == IF Some(b.row_index) = b.scroll_to_row
              THEN SetScrollRange(b1, Rangef(top_y, bottom_y))
              ELSE b1
    IN [b2 EXCEPT !.row_index = @ + 1]

\* --- TableBody::rows -------------------------------------------------------
row_height_with_spacing(b) == b.row_height_sans_spacing + b.spacing_y

\* scroll_offset_y().min(total_rows as f32 * row_height_with_spacing)
rows_scroll_offset_y(b) ==
    Min(b.scroll_offset_y, b.total_rows * row_height_with_spacing(b))

min_row_rounded_up(b) ==
    IF rows_scroll_offset_y(b) > 0
    THEN AsUsize(CeilDiv(rows_scroll_offset_y(b), row_height_with_spacing(b)))
    ELSE 0

\* rendering from the first row on, whatever the scroll offset
min_row_from_top(b) == AsUsize(0)

min_row(b) ==
    IF rows_scroll_offset_y(b) > 0
    THEN AsUsize(FloorDiv(rows_scroll_offset_y(b), row_height_with_spacing(b)))
    ELSE 0

max_row_without_extra_row(b) ==
    Min(AsUsize(CeilDiv(rows_scroll_offset_y(b) + b.max_height,
                        row_height_with_spacing(b))),
        b.total_rows)

max_row(b) ==
    Min(AsUsize(CeilDiv(rows_scroll_offset_y(b) + b.max_height,
                        row_height_with_spacing(b))) + 1,
        b.total_rows)

rows_scroll_to_y_range_unclamped(b, n) ==
    Rangef(b.cursor_y0 + n * row_height_with_spacing(b),
           b.cursor_y0 + (n + 1) * row_height_with_spacing(b))

\* the scroll target of rows(): the row is clamped to the last row
rows_scroll_to_y_range(b, n) ==
    LET scroll_to_row == Min(n, SaturatingSub(b.total_rows, 1))
    IN Rangef(b.cursor_y0 + scroll_to_row * row_height_with_spacing(b),
              b.cursor_y0 + (scroll_to_row + 1) * row_height_with_spacing(b))

rows_skip_buffer_with_spacing(b) ==
    (b.total_rows - max_row(b)) * row_height_with_spacing(b)

\* the buffer added after the rendered rows
rows_skip_buffer(b) ==
    LET skip_height == (b.total_rows - max_row(b)) * row_height_with_spacing(b)
    IN skip_height - b.spacing_y

RowsCall(b) ==
    LET b1 == IF b.scroll_to_row.some
              THEN SetScrollRange(b, rows_scroll_to_y_range(b, b.scroll_to_row.v))
              ELSE b
        lead == IF rows_scroll_offset_y(b) > 0
                THEN <<Buffer(min_row(b) * row_height_with_spacing(b))>>
                ELSE <<>>
        n == IF max_row(b) > min_row(b) THEN max_row(b) - min_row(b) ELSE 0
        rendered == [k \in 1..n |->
                        RowEmit(min_row(b) + k - 1, b.row_height_sans_spacing)]
        trail == IF b.total_rows - max_row(b) > 0
                 THEN <<Buffer(rows_skip_buffer(b))>>
                 ELSE <<>>
    IN [b1 EXCEPT !.emitted = lead \o rendered \o trail]

\* --- TableBody::heterogeneous_rows -----------------------------------------
\* enumerated_heights.next(): the iterator still has an element
HasNext(b) == b.next < Len(b.heights)
\* the (row_index, row_height) pair the iterator yields next
NextRowIndex(b) == b.next
NextRowHeight(b) == b.heights[b.next + 1]

\* the row pitch the method adds to cursor_y for a row
HetPitch(b, row_height) == row_height + b.spacing_y

HetRecordTargetRelative(b, row_index, top_y, bottom_y) ==
    IF Some(row_index) = b.scroll_to_row
    THEN SetScrollRange(b, Rangef(top_y, bottom_y))
    ELSE b

\* records the range of the row just visited when it is the scroll target
HetRecordTarget(b, row_index, top_y, bottom_y) ==
    IF Some(row_index) = b.scroll_to_row
    THEN SetScrollRange(b, Rangef(b.cursor_y0 + top_y, b.cursor_y0 + bottom_y))
    ELSE b

\* the test that ends the skip loop: the row just pulled is visible
HetRowIsVisible(cursor_y, b) == cursor_y >= b.scroll_offset_y

\* one iteration of the first loop ("skip the invisible rows, and populate
\* the first non-virtual row")
HetSkipStep(b) ==
    LET row_index == NextRowIndex(b)
        row_height == NextRowHeight(b)
        old_cursor_y == b.cursor_y
        cursor_y == old_cursor_y + HetPitch(b, row_height)
        b1 == [b EXCEPT !.next = @ + 1, !.cursor_y = cursor_y]
        b2 == HetRecordTarget(b1, row_index, old_cursor_y, cursor_y)
    IN IF HetRowIsVisible(cursor_y, b)
       THEN [b2 EXCEPT !.emitted = @ \o <<Buffer(old_cursor_y),
                                          RowEmit(row_index, row_height)>>,
                       !.pc = "visible"]
       ELSE b2

\* the test that ends the second loop: the row just rendered ends below the
\* viewport
HetPastViewport(cursor_y, b) == cursor_y > b.scroll_offset_y + b.max_height

\* an iteration of the second loop that reads the element without
\* consuming it
HetVisibleStepRereading(b) ==
    LET row_index == NextRowIndex(b)
        row_height == NextRowHeight(b)
        cursor_y == b.cursor_y + HetPitch(b, row_height)
        b1 == [b EXCEPT !.cursor_y = cursor_y,
                        !.emitted = Append(@, RowEmit(row_index, row_height))]
    IN IF HetPastViewport(cursor_y, b) THEN [b1 EXCEPT !.pc = "below"] ELSE b1

\* one iteration of the second loop ("populate visible rows")
HetVisibleStep(b) ==
    LET row_index == NextRowIndex(b)
        row_height == NextRowHeight(b)
        top_y == b.cursor_y
        cursor_y == top_y + HetPitch(b, row_height)
        b1 == [b EXCEPT !.next = @ + 1, !.cursor_y = cursor_y,
                        !.emitted = Append(@, RowEmit(row_index, row_height))]
        b2 == HetRecordTarget(b1, row_index, top_y, cursor_y)
    IN IF HetPastViewport(cursor_y, b) THEN [b2 EXCEPT !.pc = "below"] ELSE b2

\* one iteration of the third loop ("calculate height below the visible
\* table range")
HetBelowStep(b) ==
    LET row_index == NextRowIndex(b)
        row_height == NextRowHeight(b)
        top_y == b.cursor_y
        cursor_y == top_y + HetPitch(b, row_height)
        b1 == [b EXCEPT !.next = @ + 1, !.cursor_y = cursor_y,
                        !.height_below_visible = @ + HetPitch(b, row_height)]
    IN HetRecordTarget(b1, row_index, top_y, cursor_y)

\* the code after the three loops
HetFinishStep(b) ==
    LET b1 == IF b.scroll_to_row.some /\ ~b.scroll_to_y_range.some
              THEN SetScrollRange(b, RangefPoint(b.cursor_y0 + b.cursor_y))
              ELSE b
    IN IF b.height_below_visible > 0
       THEN [b1 EXCEPT !.emitted = Append(@, Buffer(b.height_below_visible))]
       ELSE b1

\* --- Table::body, after add_body_contents ----------------------------------
\* "TableBody::row didn't find the correct row, so scroll to the bottom"
BodyResolveScroll(b) ==
    IF b.scroll_to_row.some /\ ~b.scroll_to_y_range.some
    THEN SetScrollRange(b, Rangef(INFINITY, INFINITY))
    ELSE b

\* ---------------------------------------------------------------------------
\* The frame engine is idle while a body call is examined on its own
\* ---------------------------------------------------------------------------
IdleFrame ==
    /\ grid = [idle |-> TRUE]
    /\ mem = [idle |-> TRUE]
    /\ input = [idle |-> TRUE]
    /\ frame = [idle |-> TRUE]

frameVars == <<grid, mem, input, frame>>

\* ---------------------------------------------------------------------------
\* SpecBody: one row-emission call on a TableBody
\* ---------------------------------------------------------------------------
InitBody ==
    /\ tb \in TableBodies
    /\ IdleFrame

\* body.row(height, ..) for the next row, or the end of add_body_contents
Row ==
    /\ tb.pc = "row"
    /\ tb' = IF tb.row_index < Len(tb.heights)
             THEN RowCall(tb)
             ELSE [tb EXCEPT !.pc = "returned"]
    /\ UNCHANGED frameVars

\* body.rows(row_height_sans_spacing, total_rows, ..)
Rows ==
    /\ tb.pc = "rows"
    /\ tb' = [RowsCall(tb) EXCEPT !.pc = "returned"]
    /\ UNCHANGED frameVars

HetSkip ==
    /\ tb.pc = "skip"
    /\ tb' = IF HasNext(tb) THEN HetSkipStep(tb) ELSE [tb EXCEPT !.pc = "visible"]
    /\ UNCHANGED frameVars

HetVisible ==
    /\ tb.pc = "visible"
    /\ tb' = IF HasNext(tb) THEN HetVisibleStep(tb) ELSE [tb EXCEPT !.pc = "below"]
    /\ UNCHANGED frameVars

HetBelow ==
    /\ tb.pc = "below"
    /\ tb' = IF HasNext(tb) THEN HetBelowStep(tb) ELSE [tb EXCEPT !.pc = "finish"]
    /\ UNCHANGED frameVars

HetFinish ==
    /\ tb.pc = "finish"
    /\ tb' = [HetFinishStep(tb) EXCEPT !.pc = "returned"]
    /\ UNCHANGED frameVars

BodyEnd ==
    /\ tb.pc = "returned"
    /\ tb' = [BodyResolveScroll(tb) EXCEPT !.pc = "done"]
    /\ UNCHANGED frameVars

NextBody ==
    \/ Row
    \/ Rows
    \/ HetSkip
    \/ HetVisible
    \/ HetBelow
    \/ HetFinish
    \/ BodyEnd

SpecBody == InitBody /\ [][NextBody]_vars

\* a call that has been entered runs on: every loop iteration and the code
\* after the loops is eventually executed
SpecBodyFair == SpecBody /\ WF_vars(NextBody)

\* ---------------------------------------------------------------------------
\* Observations on a finished body call
\* ---------------------------------------------------------------------------
BodyReturned == tb.pc \in {"returned", "done"}

IsRowEmit(e) == e.kind = "row"
IsBufferEmit(e) == e.kind = "buffer"

\* the rendered rows, in emission order, and their indices
RenderedRows == SelectSeq(tb.emitted, IsRowEmit)
RenderedIndices == [k \in 1..Len(RenderedRows) |-> RenderedRows[k].row_index]
IsRendered(i) == \E k \in 1..Len(RenderedRows) : RenderedRows[k].row_index = i

\* positions of the first and last rendered row in the emission sequence
RowPositions == {k \in 1..Len(tb.emitted) : IsRowEmit(tb.emitted[k])}
FirstRowPos ==
    IF RowPositions = {} THEN Len(tb.emitted) + 1
    ELSE CHOOSE k \in RowPositions : \A j \in RowPositions : k <= j
LastRowPos ==
    IF RowPositions = {} THEN Len(tb.emitted) + 1
    ELSE CHOOSE k \in RowPositions : \A j \in RowPositions : k >= j

\* the spacer blocks emitted before the first / after the last rendered row
LeadingBuffers ==
    {k \in 1..Len(tb.emitted) : IsBufferEmit(tb.emitted[k]) /\ k < FirstRowPos}
TrailingBuffers ==
    {k \in 1..Len(tb.emitted) : IsBufferEmit(tb.emitted[k]) /\ k > LastRowPos}
BufferHeights(K) ==
    SumSeq([k \in 1..Len(tb.emitted) |-> IF k \in K THEN tb.emitted[k].height ELSE 0])
LeadingSpacer == BufferHeights(LeadingBuffers)
TrailingSpacer == BufferHeights(TrailingBuffers)

\* an ascending run of consecutive indices lo, lo+1, .., hi-1
IndexRun(lo, hi) == [k \in 1..(IF hi > lo THEN hi - lo ELSE 0) |-> lo + k - 1]

\* height sequence: pitch, top and end offset of row i (0-based), total content
RowPitch(i) == tb.heights[i + 1] + tb.spacing_y
RowTop(i) == SumSeq([k \in 1..i |-> tb.heights[k] + tb.spacing_y])
RowEnd(i) == RowTop(i) + RowPitch(i)
NumHetRows == Len(tb.heights)
TotalContent == RowTop(NumHetRows)
SumOver(I) == SumSeq([k \in 1..NumHetRows |-> IF (k - 1) \in I THEN RowPitch(k - 1) ELSE 0])

\* ---------------------------------------------------------------------------
\* C5  Variable-height exactness: when heterogeneous_rows has returned, leading
\* spacer + heights of the rendered rows + trailing spacer equals the sum of
\* all input heights, for every scroll offset (stated for zero item spacing,
\* where a row's pitch is its height).
\* ---------------------------------------------------------------------------
C5_HetExactness ==
    (tb.mode = "heterogeneous_rows" /\ BodyReturned /\ tb.spacing_y = 0)
    => LeadingSpacer
       + SumSeq([k \in 1..Len(RenderedRows) |-> RenderedRows[k].height])
       + TrailingSpacer
       = SumSeq(tb.heights)

\* ---------------------------------------------------------------------------
\* C6  Uniform-mode window: for scroll offsets s >= 0 the rows rendered by rows()
\* are exactly min_row..max_row in ascending order, with
\* min_row = floor(s/h) and max_row = ceil((s+H)/h)+1 both clamped to
\* [0,total_rows], min_row <= max_row, and the leading spacer is min_row*h
\* (h the row pitch the method divides by).
\* ---------------------------------------------------------------------------
C6_MinRow ==
    Min(Max(FloorDiv(tb.scroll_offset_y, row_height_with_spacing(tb)), 0),
        tb.total_rows)
C6_MaxRow ==
    Min(Max(CeilDiv(tb.scroll_offset_y + tb.max_height,
                    row_height_with_spacing(tb)) + 1, 0),
        tb.total_rows)
C6_UniformWindow ==
    (tb.mode = "rows" /\ BodyReturned /\ tb.scroll_offset_y >= 0)
    => /\ RenderedIndices = IndexRun(C6_MinRow, C6_MaxRow)
       /\ C6_MinRow <= C6_MaxRow
       /\ LeadingSpacer = C6_MinRow * row_height_with_spacing(tb)

\* witness: a call that skipped rows, rendered some and left some below
C6_Witness ==
    /\ tb.mode = "rows" /\ BodyReturned /\ tb.scroll_offset_y > 0
    /\ C6_MinRow > 0
    /\ Len(RenderedRows) >= 2
    /\ C6_MaxRow < tb.total_rows

\* ---------------------------------------------------------------------------
\* C7  The example: row height 20, 10000 rows, viewport 400, scroll offset 205.
\* Original statement: min_row is 10, the rendered rows are [10, 31) (21 rows)
\* and the leading spacer is 200.
\* ---------------------------------------------------------------------------
IsExampleRows ==
    /\ tb.mode = "rows" /\ BodyReturned
    /\ tb.row_height_sans_spacing = 20 /\ tb.total_rows = 10000
    /\ tb.max_height = 400 /\ tb.scroll_offset_y = 205 /\ tb.spacing_y = 0

C7_Original ==
    IsExampleRows
    => /\ min_row(tb) = 10
       /\ RenderedIndices = IndexRun(10, 31)
       /\ Len(RenderedRows) = 21
       /\ LeadingSpacer = 200

\* C7 as amended: min_row is 10, the rendered rows are [10, 32) (22 rows, since
\* ceil(605/20) + 1 = 31 + 1), and the leading spacer is 200.
C7_Amended ==
    IsExampleRows
    => /\ min_row(tb) = 10
       /\ RenderedIndices = IndexRun(10, 32)
       /\ Len(RenderedRows) = 22
       /\ LeadingSpacer = 200

C7_Witness == IsExampleRows /\ Len(tb.emitted) > 0

\* ---------------------------------------------------------------------------
\* C8  Uniform-mode total height.  Original statement: leading spacer +
\* rendered rows x row pitch + trailing spacer equals total_rows x row pitch,
\* for every vertical item spacing, whether or not a trailing spacer is emitted.
\* ---------------------------------------------------------------------------
RowsEmittedHeight ==
    LeadingSpacer + Len(RenderedRows) * row_height_with_spacing(tb) + TrailingSpacer

C8_Original ==
    (tb.mode = "rows" /\ BodyReturned)
    => RowsEmittedHeight = tb.total_rows * row_height_with_spacing(tb)

\* C8 as amended: the sum equals total_rows x row pitch when no trailing spacer
\* is emitted, and total_rows x row pitch minus the vertical item spacing when
\* one is emitted.
C8_Amended ==
    (tb.mode = "rows" /\ BodyReturned)
    => RowsEmittedHeight
       = tb.total_rows * row_height_with_spacing(tb)
         - (IF TrailingBuffers # {} THEN tb.spacing_y ELSE 0)

C8_Witness ==
    /\ tb.mode = "rows" /\ BodyReturned
    /\ tb.spacing_y > 0
    /\ LeadingBuffers # {} /\ Len(RenderedRows) > 0 /\ TrailingBuffers # {}

\* ---------------------------------------------------------------------------
\* C9  Variable-height window: when heterogeneous_rows has returned, (a) no row
\* whose end offset is below s is rendered and all such rows are summed into
\* the leading spacer, (b) every row whose span meets [s, s+H] is rendered,
\* (c) the rendered rows are one contiguous ascending index range and (d) all
\* rows after it are summed into the trailing spacer.
\* ---------------------------------------------------------------------------
HetRows == 0..(NumHetRows - 1)
RowsEndingBelow == {i \in HetRows : RowEnd(i) < tb.scroll_offset_y}
RowsMeetingViewport ==
    {i \in HetRows : /\ RowEnd(i) >= tb.scroll_offset_y
                     /\ RowTop(i) <= tb.scroll_offset_y + tb.max_height}
RowsAfterRendered ==
    {i \in HetRows : RenderedRows # <<>> /\ i > RenderedIndices[Len(RenderedRows)]}

C9_NoneBelowRendered == \A i \in RowsEndingBelow : ~IsRendered(i)
C9_LeadingIsSkipped == LeadingSpacer = SumOver(RowsEndingBelow)
C9_ViewportRendered == \A i \in RowsMeetingViewport : IsRendered(i)
C9_Contiguous ==
    RenderedRows # <<>>
    => RenderedIndices
       = IndexRun(RenderedIndices[1], RenderedIndices[1] + Len(RenderedRows))
C9_TrailingIsRest == TrailingSpacer = SumOver(RowsAfterRendered)

C9_HetWindow ==
    (tb.mode = "heterogeneous_rows" /\ BodyReturned)
    => /\ C9_NoneBelowRendered
       /\ C9_LeadingIsSkipped
       /\ C9_ViewportRendered
       /\ C9_Contiguous
       /\ C9_TrailingIsRest

\* ---------------------------------------------------------------------------
\* C10  Scroll target past the end.  Original statement: in every row-emission
\* mode, when scroll_to_row >= the number of rows, the resolved target is a
\* zero-length range located at the end of the total content.
\* ---------------------------------------------------------------------------
NumRows == IF tb.mode = "rows" THEN tb.total_rows ELSE Len(tb.heights)
ContentEnd ==
    tb.cursor_y0
    + (IF tb.mode = "rows"
       THEN tb.total_rows * row_height_with_spacing(tb)
       ELSE TotalContent)
ScrollPastEnd ==
    tb.pc = "done" /\ tb.scroll_to_row.some /\ tb.scroll_to_row.v >= NumRows

C10_WitnessHet ==
    /\ ScrollPastEnd /\ tb.mode = "heterogeneous_rows" /\ Len(tb.heights) >= 2

C10_WitnessRow ==
    /\ ScrollPastEnd /\ tb.mode = "row" /\ Len(tb.heights) >= 2

\* ---------------------------------------------------------------------------
\* C11  Variable-height scroll target: when heterogeneous_rows has returned and
\* scroll_to_row = N with N smaller than the number of rows, the recorded
\* target is exactly [base + sum of the pitches of rows 0..N-1, base + sum of
\* the pitches of rows 0..N] (base the layout cursor at entry), it was
\* recorded exactly once, and it does not depend on the scroll offset (row N
\* before, inside or after the rendered window).
\* ---------------------------------------------------------------------------
HetTargetInRange ==
    /\ tb.mode = "heterogeneous_rows" /\ BodyReturned
    /\ tb.scroll_to_row.some /\ tb.scroll_to_row.v < NumHetRows

C11_HetScrollTarget ==
    HetTargetInRange
    => /\ tb.scroll_to_y_range.some
       /\ tb.scroll_to_y_range.v
            = Rangef(tb.cursor_y0 + RowTop(tb.scroll_to_row.v),
                     tb.cursor_y0 + RowEnd(tb.scroll_to_row.v))
       /\ tb.range_writes = 1

\* the target row lies after the rendered window and is visited by the third
\* loop only
C11_Witness ==
    /\ HetTargetInRange /\ tb.spacing_y > 0 /\ tb.scroll_offset_y > 0
    /\ RenderedRows # <<>>
    /\ tb.scroll_to_row.v > RenderedIndices[Len(RenderedRows)]

\* ======================================================================
\* The column sizing engine and the column resize state machine: one frame
\* of TableBuilder::header / TableBuilder::body followed by Table::body.
\* Lengths are whole numbers.  The rows drawn by the body closure are
\* modelled above; a frame sees them only as the content widths they
\* report back (max_used_widths).
\* ======================================================================

\* ---- bounds of the frame inputs
MaxX == 3
MaxContent == 3

\* the half-width of a resize strip, doubled: strips are one unit wide
resize_grab_radius_side_x2 == 1

\* ---- Column and its builder methods
InitialAbsolute(width) == [kind |-> "Absolute", width |-> width]
InitialAutomatic(width) == [kind |-> "Automatic", width |-> width]
InitialRemainder == [kind |-> "Remainder", width |-> 0]

ColumnNew(initial_width) ==
    [initial_width |-> initial_width,
     width_range |-> Rangef(0, INFINITY),
     resizable |-> None,
     clip |-> FALSE,
     auto_size_this_frame |-> FALSE,
     fixed |-> FALSE]

resizable(column, b) == [column EXCEPT !.resizable = Some(b)]
clip(column, b) == [column EXCEPT !.clip = b]
at_least(column, minimum) ==
    [column EXCEPT !.width_range = Rangef(minimum, column.width_range.max)]
at_most(column, maximum) ==
    [column EXCEPT !.width_range = Rangef(column.width_range.min, maximum)]
range(column, lo, hi) == [column EXCEPT !.width_range = Rangef(lo, hi)]
auto_size_this_frame(column, b) == [column EXCEPT !.auto_size_this_frame = b]

ColumnAutoWithInitialSuggestion(suggested_width) ==
    ColumnNew(InitialAutomatic(suggested_width))
ColumnInitial(width) == ColumnNew(InitialAbsolute(width))
\* Column::exact without .range(width..=width)
ColumnExactUnranged(width) ==
    clip(ColumnNew(InitialAbsolute(width)), TRUE)

ColumnExact(width) ==
    clip(range(ColumnNew(InitialAbsolute(width)), width, width), TRUE)
ColumnRemainder == ColumnNew(InitialRemainder)

\* Automatic(_) matched with the sizes that are not content-driven
is_auto_as_absolute(column) == column.initial_width.kind = "Content"

is_auto(column) == column.initial_width.kind = "Automatic"

RangefClampUnbounded(r, x) == x

\* Rangef::clamp
RangefClamp(r, x) == Max(r.min, Min(r.max, x))

\* ---- crate::sizing, as the design document describes the flex rule
SizeExact(width) ==
    [kind |-> "Absolute", initial |-> width, range |-> Rangef(width, width)]
SizeInitial(width) ==
    [kind |-> "Absolute", initial |-> width, range |-> Rangef(0, INFINITY)]
SizeRemainder ==
    [kind |-> "Remainder", initial |-> 0, range |-> Rangef(0, INFINITY)]
SizeWithRange(size, r) == [size EXCEPT !.range = r]
SizeAtLeast(size, minimum) ==
    [size EXCEPT !.range = Rangef(minimum, size.range.max)]
SizeAtMost(size, maximum) ==
    [size EXCEPT !.range = Rangef(size.range.min, maximum)]

\* fixed widths come off the top, the rest is shared equally between the
\* flexible slots, every result is clamped to its range
to_lengths(sizes, length, spacing) ==
    LET n == Len(sizes)
        fixed_w(i) == RangefClamp(sizes[i].range, sizes[i].initial)
        flexible == {i \in 1..n : sizes[i].kind = "Remainder"}
        taken == SumSeq([i \in 1..n |->
                           IF i \in flexible THEN 0 ELSE fixed_w(i)])
        rest == length - taken - spacing * (n - 1)
        share == IF flexible = {} THEN 0
                 ELSE Max(0, rest) \div Cardinality(flexible)
    IN  [i \in 1..n |->
           IF i \in flexible THEN RangefClamp(sizes[i].range, share)
           ELSE fixed_w(i)]

to_sizing(columns) ==
    [i \in 1..Len(columns) |->
       SizeWithRange(
         CASE columns[i].initial_width.kind = "Absolute" ->
                SizeExact(columns[i].initial_width.width)
           [] columns[i].initial_width.kind = "Automatic" ->
                SizeInitial(columns[i].initial_width.width)
           [] OTHER -> SizeRemainder,
         columns[i].width_range)]

\* ---- TableState, ResizePreviewState, TableResizeInfo
NewTableState(column_widths) ==
    [column_widths |-> column_widths,
     scroll_offset_x |-> 0,
     max_used_widths |-> <<>>]

DefaultResizePreview ==
    [active |-> FALSE, column |-> None, start_width |-> 0,
     start_pointer_x |-> 0, start_handle_x |-> 0,
     pending_width |-> 0, preview_x |-> 0]

DefaultResizeInfo(mode) ==
    [active |-> FALSE, column |-> None, preview_x |-> None,
     pending_width |-> None, mode |-> mode]

column_resizable(column, table_resizable) ==
    IF column.resizable.some THEN column.resizable.v ELSE table_resizable

\* the sizes TableState::load hands to the flex rule on a later frame
load_size(column, table_resizable, prev_width, max_used) ==
    IF column_resizable(column, table_resizable)
    THEN SizeExact(prev_width)
    ELSE SizeAtMost(
           SizeAtLeast(
             CASE column.initial_width.kind = "Absolute" ->
                    SizeExact(column.initial_width.width)
               [] column.initial_width.kind = "Automatic" ->
                    SizeExact(prev_width)
               [] OTHER -> SizeRemainder,
             Max(column.width_range.min, max_used)),
           column.width_range.max)

\* a load that keeps the stored widths of the columns that are still there
TableStateLoadKeepStale(stored, table_resizable, columns, available_width, ui_is_sizing_pass, item_spacing_x) ==
    LET fresh == to_lengths(to_sizing(columns), available_width, item_spacing_x)
        kept == IF stored.some
                THEN [i \in 1..Len(columns) |->
                        IF i <= Len(stored.v.column_widths)
                        THEN stored.v.column_widths[i] ELSE fresh[i]]
                ELSE fresh
    IN  [is_sizing_pass |->
             ui_is_sizing_pass
             \/ (~stored.some /\ \E i \in 1..Len(columns) : is_auto(columns[i])),
         state |-> NewTableState(kept)]

\* a load that measures on every frame of a grid with a content-driven column
TableStateLoadAlwaysMeasuring(stored, table_resizable, columns, available_width, ui_is_sizing_pass, item_spacing_x) ==
    [is_sizing_pass |->
         ui_is_sizing_pass \/ \E i \in 1..Len(columns) : is_auto(columns[i]),
     state |->
         IF stored.some /\ Len(stored.v.column_widths) = Len(columns)
         THEN stored.v
         ELSE NewTableState(to_lengths(to_sizing(columns), available_width,
                                       item_spacing_x))]

\* a load that shares out the available width afresh on every frame
TableStateLoadRedistributing(stored, table_resizable, columns, available_width, ui_is_sizing_pass, item_spacing_x) ==
    [is_sizing_pass |->
         ui_is_sizing_pass
         \/ (~(stored.some /\ Len(stored.v.column_widths) = Len(columns))
             /\ \E i \in 1..Len(columns) : is_auto(columns[i])),
     state |-> NewTableState(to_lengths(to_sizing(columns), available_width,
                                        item_spacing_x))]

\* a load that carries the scroll offset of a discarded state over
TableStateLoadKeepingOffset(stored, table_resizable, columns, available_width, ui_is_sizing_pass, item_spacing_x) ==
    [is_sizing_pass |->
         ui_is_sizing_pass
         \/ (~(stored.some /\ Len(stored.v.column_widths) = Len(columns))
             /\ \E i \in 1..Len(columns) : is_auto(columns[i])),
     state |->
         IF stored.some /\ Len(stored.v.column_widths) = Len(columns)
         THEN stored.v
         ELSE [NewTableState(to_lengths(to_sizing(columns), available_width,
                                        item_spacing_x))
                 EXCEPT !.scroll_offset_x =
                          IF stored.some THEN stored.v.scroll_offset_x ELSE 0]]

\* TableState::load: <<is_sizing_pass, state>>
TableStateLoad(stored, table_resizable, columns, available_width, ui_is_sizing_pass, item_spacing_x) ==
    LET valid == stored.some
                 /\ Len(stored.v.column_widths) = Len(columns)
        is_sizing_pass ==
            ui_is_sizing_pass
            \/ (~valid /\ \E i \in 1..Len(columns) : is_auto(columns[i]))
        state0 == IF valid THEN stored.v
                  ELSE NewTableState(to_lengths(to_sizing(columns),
                                                available_width,
                                                item_spacing_x))
        state1 ==
            IF ~is_sizing_pass
               /\ Len(state0.max_used_widths) = Len(columns)
            THEN [state0 EXCEPT !.column_widths =
                    to_lengths(
                      [i \in 1..Len(columns) |->
                         load_size(columns[i], table_resizable,
                                   state0.column_widths[i],
                                   state0.max_used_widths[i])],
                      available_width, item_spacing_x)]
            ELSE state0
    IN  [is_sizing_pass |-> is_sizing_pass, state |-> state1]

\* ---- the host UI's pointer, as the design document describes it:
\* a press inside a strip starts a drag of that strip, the drag lasts while
\* the primary button stays down and ends on the frame of the release.
\* input.handles holds the strips registered by the previous frame.
HandleContains(handle_x, pointer_x) ==
    LET d == pointer_x - handle_x
    IN  2 * (IF d < 0 THEN -d ELSE d) <= resize_grab_radius_side_x2

primary_pressed(inp, ptr) == ptr.down /\ ~inp.down
primary_released(inp, ptr) == ~ptr.down /\ inp.down

pointer_delta_x(inp, ptr) ==
    IF ptr.pos.some /\ inp.pos.some THEN ptr.pos.v - inp.pos.v ELSE 0

HitHandles(inp, ptr) ==
    {h \in inp.handles : ptr.pos.some /\ HandleContains(h[2], ptr.pos.v)}

\* the strip the pointer drags in this frame, given the strip hit on a press
DraggedNow(inp, ptr, hit) ==
    IF primary_pressed(inp, ptr) THEN hit
    ELSE IF ptr.down THEN inp.dragged
    ELSE None

\* the Response of ui.interact for the strip of column i
Interact(inp, ptr, hit, i) ==
    LET now == DraggedNow(inp, ptr, hit)
    IN  [drag_started |-> primary_pressed(inp, ptr) /\ hit = Some(i),
         dragged |-> ptr.down /\ now = Some(i),
         drag_stopped |-> primary_released(inp, ptr) /\ inp.dragged = Some(i),
         drag_delta_x |-> IF ptr.down /\ now = Some(i)
                          THEN pointer_delta_x(inp, ptr) ELSE 0]

\* Rect::intersect(..).is_positive() for a strip at resize_x against a clip
\* rectangle [clip_min_x, clip_max_x]
ValidRectIsPositive(resize_x, clip_min_x, clip_max_x) ==
    /\ clip_min_x < clip_max_x
    /\ 2 * resize_x - resize_grab_radius_side_x2 < 2 * clip_max_x
    /\ 2 * clip_min_x < 2 * resize_x + resize_grab_radius_side_x2

\* the scroll area shows the content through [0, available width]
ClipRect(available_width) == Rangef(0, available_width)

fixed_columns_width(columns, column_widths) ==
    SumSeq([i \in 1..Len(columns) |->
              IF columns[i].fixed THEN column_widths[i] ELSE 0])

\* ---- the Deferred bookkeeping shared by the header and the body strip
PreviewStart(preview, i, width, pointer_pos, resize_x, response) ==
    IF response.drag_started /\ pointer_pos.some
    THEN [active |-> TRUE, column |-> Some(i), start_width |-> width,
          start_pointer_x |-> pointer_pos.v, start_handle_x |-> resize_x,
          pending_width |-> width, preview_x |-> resize_x]
    ELSE preview

PendingWidth(column, new_width, floor_width) ==
    RangefClamp(column.width_range,
                IF ~column.clip THEN Max(new_width, floor_width)
                ELSE new_width)

PreviewFollow(preview, i, column, floor_width, pointer_pos) ==
    IF preview.active /\ preview.column = Some(i) /\ pointer_pos.some
    THEN [preview EXCEPT
            !.pending_width =
                PendingWidth(column,
                             preview.start_width
                               + (pointer_pos.v - preview.start_pointer_x),
                             floor_width),
            !.preview_x = preview.start_handle_x
                            + (pointer_pos.v - preview.start_pointer_x)]
    ELSE preview

LiveWidthUnfloored(column, width, floor_width, response) ==
    IF response.dragged
    THEN RangefClamp(column.width_range, width + response.drag_delta_x)
    ELSE width

\* the width a Live drag gives a column in this frame
LiveWidth(column, width, floor_width, response) ==
    IF response.dragged
    THEN RangefClamp(column.width_range,
                     IF ~column.clip
                     THEN Max(width + response.drag_delta_x, floor_width)
                     ELSE width + response.drag_delta_x)
    ELSE width

\* resize_info of a frame in which the strip of column i is being dragged
PublishDrag(info, drag_active, i, mode, preview, live_x, live_width) ==
    IF drag_active
    THEN [info EXCEPT !.active = TRUE,
                      !.column = Some(i),
                      !.preview_x = Some(IF mode = "Deferred"
                                         THEN preview.preview_x ELSE live_x),
                      !.pending_width = Some(IF mode = "Deferred"
                                             THEN preview.pending_width
                                             ELSE live_width)]
    ELSE info

DragActive(mode, response, preview, i) ==
    IF mode = "Live" THEN response.dragged
    ELSE preview.active /\ preview.column = Some(i)

RegisterHandle(handles, i, resize_x, clip_rect) ==
    IF ValidRectIsPositive(resize_x, clip_rect.min, clip_rect.max)
    THEN handles \cup {<<i, resize_x>>}
    ELSE handles

\* ---- TableBuilder::header: the strips of a header-resized grid.
\* A strip yields the header width, the stored width and the preview state.
HeaderLive(live, header_width, column_width, preview, response) ==
    IF response.dragged
    THEN [header_width |-> live, column_width |-> live, preview |-> preview]
    ELSE [header_width |-> header_width, column_width |-> column_width,
          preview |-> preview]

HeaderDeferred(followed, header_width, column_width, i, response) ==
    IF response.drag_stopped /\ followed.column = Some(i)
    THEN [header_width |-> followed.pending_width,
          column_width |-> followed.pending_width,
          preview |-> DefaultResizePreview]
    ELSE IF followed.active /\ followed.column = Some(i)
    THEN [header_width |-> followed.pending_width,
          column_width |-> column_width,
          preview |-> followed]
    ELSE [header_width |-> header_width, column_width |-> column_width,
          preview |-> followed]

HeaderStrip(column, i, mode, header_width, column_width, max_used_width, resize_x, preview, ptr, response) ==
    IF mode = "Live"
    THEN HeaderLive(LiveWidth(column, header_width, max_used_width, response),
                    header_width, column_width, preview, response)
    ELSE HeaderDeferred(
           PreviewFollow(PreviewStart(preview, i, header_width, ptr.pos,
                                      resize_x, response),
                         i, column, max_used_width, ptr.pos),
           header_width, column_width, i, response)

\* acc: header_widths, column_widths, x, preview, info, handles
HeaderColumnDone(acc, i, mode, x, resize_x, strip, response, clip_rect) ==
    [header_widths |-> [acc.header_widths EXCEPT ![i] = strip.header_width],
     column_widths |-> [acc.column_widths EXCEPT ![i] = strip.column_width],
     x |-> x,
     preview |-> strip.preview,
     info |-> PublishDrag(acc.info,
                          DragActive(mode, response, strip.preview, i),
                          i, mode, strip.preview, resize_x,
                          strip.header_width),
     handles |-> RegisterHandle(acc.handles, i, resize_x, clip_rect)]

HeaderColumnAt(acc, i, mode, column, max_used_width, x, resize_x, ptr, response, clip_rect) ==
    HeaderColumnDone(acc, i, mode, x, resize_x,
                     HeaderStrip(column, i, mode, acc.header_widths[i],
                                 acc.column_widths[i], max_used_width,
                                 resize_x, acc.preview, ptr, response),
                     response, clip_rect)

HeaderResizeX(column, x, scroll_offset_x) ==
    IF column.fixed THEN x + scroll_offset_x ELSE x

HeaderColumn(acc, i, g, columns, state, ptr, inp, hit, clip_rect) ==
    IF ~column_resizable(columns[i], g.resizable)
    THEN [acc EXCEPT !.x = acc.x + acc.header_widths[i] + 0]
    ELSE HeaderColumnAt(acc, i, g.resize_mode, columns[i],
                        IF i <= Len(state.max_used_widths)
                        THEN state.max_used_widths[i] ELSE 0,
                        acc.x + acc.header_widths[i] + 0,
                        HeaderResizeX(columns[i],
                                      acc.x + acc.header_widths[i] + 0,
                                      state.scroll_offset_x),
                        ptr, Interact(inp, ptr, hit, i), clip_rect)

RECURSIVE HeaderColumns(_, _, _, _, _, _, _, _, _)
HeaderColumns(acc, i, g, columns, state, ptr, inp, hit, clip_rect) ==
    IF i > Len(columns) THEN acc
    ELSE HeaderColumns(
           HeaderColumn(acc, i, g, columns, state, ptr, inp, hit, clip_rect),
           i + 1, g, columns, state, ptr, inp, hit, clip_rect)

HeaderStart(g, state, preview) ==
    [header_widths |-> state.column_widths,
     column_widths |-> state.column_widths,
     x |-> 0 - state.scroll_offset_x,
     preview |-> preview,
     info |-> DefaultResizeInfo(g.resize_mode),
     handles |-> {}]

\* what a part of the frame hands on: state, preview, info, handles
PartDone(state, done) ==
    [state |-> [state EXCEPT !.column_widths = done.column_widths],
     preview |-> done.preview,
     info |-> done.info,
     handles |-> done.handles]

\* the header part of a frame
Header(g, columns, state, preview, ptr, inp, hit, clip_rect) ==
    PartDone(state,
             IF ~g.resizable_body
             THEN HeaderColumns(HeaderStart(g, state, preview), 1, g, columns,
                                state, ptr, inp, hit, clip_rect)
             ELSE HeaderStart(g, state, preview))

\* ---- Table::body: the per-frame clamp and the strips of the body.
PerFrameClampAccumulating(column, column_width, max_used, ui_is_sizing_pass) ==
    RangefClamp(column.width_range,
                IF ~column.clip THEN column_width + max_used ELSE column_width)

PerFrameClamp(column, column_width, max_used, ui_is_sizing_pass) ==
    RangefClamp(column.width_range,
                IF ui_is_sizing_pass
                THEN (IF column.clip THEN Min(column_width, max_used)
                      ELSE max_used)
                ELSE IF ~column.clip THEN Max(column_width, max_used)
                ELSE column_width)

BodyDeferred(followed, column_width, i, response) ==
    IF followed.active /\ followed.column = Some(i) /\ response.drag_stopped
    THEN [width |-> followed.pending_width, preview |-> DefaultResizePreview]
    ELSE [width |-> column_width, preview |-> followed]

\* the resizable_body branch for a strip that is on screen: width, preview
BodyStrip(column, i, mode, column_width, max_used, resize_x, preview, ptr, response) ==
    IF column.auto_size_this_frame
    THEN [width |-> RangefClamp(column.width_range, max_used),
          preview |-> preview]
    ELSE IF mode = "Live"
    THEN [width |-> LiveWidth(column, column_width, max_used, response),
          preview |-> preview]
    ELSE BodyDeferred(
           PreviewFollow(PreviewStart(preview, i, column_width, ptr.pos,
                                      resize_x, response),
                         i, column, max_used, ptr.pos),
           column_width, i, response)

\* the x of the line drawn for a strip under a Live drag
LiveLineX(column, resize_x, ptr, response) ==
    IF response.dragged /\ ptr.pos.some /\ ~column.auto_size_this_frame
    THEN ptr.pos.v ELSE resize_x

\* acc: column_widths, x, preview, info, handles
BodyColumnDone(acc, i, mode, column, x, resize_x, strip, ptr, response) ==
    [column_widths |-> [acc.column_widths EXCEPT ![i] = strip.width],
     x |-> x,
     preview |-> strip.preview,
     info |-> PublishDrag(acc.info,
                          DragActive(mode, response, strip.preview, i),
                          i, mode, strip.preview,
                          LiveLineX(column, resize_x, ptr, response),
                          strip.width),
     handles |-> acc.handles \cup {<<i, resize_x>>}]

BodyColumnAt(acc, i, g, column, is_sizing_pass, header_bottom, max_used, clamped, resize_x, strip_clip, ptr, response) ==
    IF is_auto(column)
       /\ (is_sizing_pass \/ ~column_resizable(column, g.resizable))
    THEN [acc EXCEPT !.x = acc.x + clamped + 0,
                     !.column_widths[i] =
                         RangefClamp(column.width_range, max_used)]
    ELSE IF column_resizable(column, g.resizable) /\ g.resizable_body
            /\ ValidRectIsPositive(resize_x, strip_clip.min, strip_clip.max)
    THEN BodyColumnDone(acc, i, g.resize_mode, column, acc.x + clamped + 0,
                        resize_x,
                        BodyStrip(column, i, g.resize_mode, clamped, max_used,
                                  resize_x, acc.preview, ptr, response),
                        ptr, response)
    \* a header-resized grid only draws the dividers here; the branch left
    \* over needs header_bottom, ~header_resize_handled and ~resizable_body
    \* together, which never holds
    ELSE [acc EXCEPT !.x = acc.x + clamped + 0, !.column_widths[i] = clamped]

BodyColumnClamped(acc, i, g, column, is_sizing_pass, header_bottom, max_used, clamped, ptr, response, scroll_offset_x, clip_rect, scrollable_clip_rect) ==
    BodyColumnAt(acc, i, g, column, is_sizing_pass, header_bottom, max_used,
                 clamped,
                 HeaderResizeX(column, acc.x + clamped + 0, scroll_offset_x),
                 IF column.fixed THEN clip_rect ELSE scrollable_clip_rect,
                 ptr, response)

BodyColumn(acc, i, g, columns, is_sizing_pass, header_bottom, fr, ptr, inp, hit, scroll_offset_x, clip_rect, scrollable_clip_rect) ==
    BodyColumnClamped(acc, i, g, columns[i], is_sizing_pass, header_bottom,
                      fr.measured[i],
                      PerFrameClamp(columns[i], acc.column_widths[i],
                                    fr.measured[i], fr.parent_sizing),
                      ptr, Interact(inp, ptr, hit, i), scroll_offset_x,
                      clip_rect, scrollable_clip_rect)

RECURSIVE BodyColumns(_, _, _, _, _, _, _, _, _, _, _, _, _)
BodyColumns(acc, i, g, columns, is_sizing_pass, header_bottom, fr, ptr, inp, hit, scroll_offset_x, clip_rect, scrollable_clip_rect) ==
    IF i > Len(columns) THEN acc
    ELSE BodyColumns(
           BodyColumn(acc, i, g, columns, is_sizing_pass, header_bottom, fr,
                      ptr, inp, hit, scroll_offset_x, clip_rect,
                      scrollable_clip_rect),
           i + 1, g, columns, is_sizing_pass, header_bottom, fr, ptr, inp,
           hit, scroll_offset_x, clip_rect, scrollable_clip_rect)

BodyStart(g, state, preview, info) ==
    [column_widths |-> state.column_widths,
     x |-> 0 - state.scroll_offset_x,
     preview |-> preview,
     info |-> [info EXCEPT !.mode = g.resize_mode],
     handles |-> {}]

\* the body part of a frame
Body(g, columns, is_sizing_pass, header_bottom, state, preview, info, fr, ptr, inp, hit, clip_rect) ==
    PartDone(state,
             BodyColumns(BodyStart(g, state, preview, info), 1, g, columns,
                         is_sizing_pass, header_bottom, fr, ptr, inp, hit,
                         state.scroll_offset_x, clip_rect,
                         Rangef(clip_rect.min
                                  + fixed_columns_width(columns,
                                                        state.column_widths),
                                clip_rect.max)))

\* ---- one frame of a grid
FrameColumns(g, auto) ==
    [i \in 1..Len(g.columns) |->
       auto_size_this_frame(g.columns[i], i \in auto)]

available_width_for_sizing(g, available_width) ==
    IF g.hscroll THEN 1000000 ELSE available_width

\* TableBuilder::body: no header, the state goes to Table::body as loaded
NoHeader(g, state, m) ==
    [state |-> state,
     preview |-> m.resize_preview,
     info |-> IF m.resize_info.some THEN m.resize_info.v
              ELSE DefaultResizeInfo(g.resize_mode),
     handles |-> {}]

FrameDone(header, body) ==
    [state |-> body.state,
     preview |-> body.preview,
     info |-> body.info,
     handles |-> header.handles \cup body.handles]

FrameAfterHeader(g, columns, is_sizing_pass, header, fr, ptr, inp, hit, clip_rect) ==
    FrameDone(header,
              Body(g, columns, is_sizing_pass, g.has_header, header.state,
                   header.preview,
                   header.info,
                   fr, ptr, inp, hit, clip_rect))

FrameAfterLoad(g, columns, loaded, m, fr, ptr, inp, hit, clip_rect) ==
    FrameAfterHeader(g, columns, loaded.is_sizing_pass,
                     IF g.has_header
                     THEN Header(g, columns, loaded.state, m.resize_preview,
                                 ptr, inp, hit, clip_rect)
                     ELSE NoHeader(g, loaded.state, m),
                     fr, ptr, inp, hit, clip_rect)

\* what the frame leaves behind: state, preview, info, handles
FrameResult(g, m, inp, ptr, fr, available_width, hit) ==
    FrameAfterLoad(g, FrameColumns(g, fr.auto),
                   TableStateLoad(m.state, g.resizable,
                                  FrameColumns(g, fr.auto),
                                  available_width_for_sizing(g,
                                                             available_width),
                                  fr.parent_sizing, g.item_spacing_x),
                   m, fr, ptr, inp, hit, ClipRect(available_width))

\* ---- the grids and the inputs of a frame
Columns1 ==
    <<at_most(at_least(ColumnInitial(2), 1), 3),
      resizable(ColumnExact(1), FALSE)>>

\* a content-driven column and one that takes up the remainder
Columns2 ==
    <<at_most(ColumnAutoWithInitialSuggestion(2), 3),
      resizable(range(ColumnRemainder, 1, 4), FALSE)>>

NewGrid(columns, mode, has_header) ==
    [columns |-> columns, resizable |-> TRUE, resizable_body |-> ~has_header,
     resize_mode |-> mode, has_header |-> has_header, hscroll |-> FALSE,
     item_spacing_x |-> 0]

\* grids resized from the body (no header) and from the header, in both
\* resize modes
Grids ==
    {NewGrid(Columns1, mode, hd) : mode \in {"Live", "Deferred"},
                                   hd \in BOOLEAN}
      \cup {NewGrid(Columns2, "Live", FALSE)}

PointerPositions == {None} \cup {Some(x) : x \in 0..MaxX}
Pointers == [pos : PointerPositions, down : BOOLEAN]
ContentWidths == {1, MaxContent}
\* every cell of a frame holds the same content
MeasuredWidths(n) == {[i \in 1..n |-> w] : w \in ContentWidths}
AutoSizeRequests == {{}, {1}}
AvailableWidths == {2, 6}

IdleBody == [idle |-> TRUE]
NoFrame ==
    [measured |-> <<>>, parent_sizing |-> FALSE, auto |-> {}]

InitGrids(grids) ==
    /\ tb = IdleBody
    /\ grid \in grids
    /\ mem = [state |-> None, resize_preview |-> DefaultResizePreview,
              resize_info |-> None]
    /\ input = [pos |-> None, down |-> FALSE, dragged |-> None,
                handles |-> {}]
    /\ frame = NoFrame

\* TableBuilder::header(..).body(..) or TableBuilder::body(..), once, with
\* the frame's inputs drawn from the given sets
FrameWith(pointers, contents, requests, sizing_passes, available_widths) ==
    \E ptr \in pointers,
       measured \in contents,
       auto \in requests,
       parent_sizing \in sizing_passes,
       available_width \in available_widths :
      LET fr == [measured |-> measured, parent_sizing |-> parent_sizing,
                 auto |-> auto]
          hits == HitHandles(input, ptr)
      IN  \E hit \in (IF hits = {} THEN {None}
                      ELSE {Some(h[1]) : h \in hits}) :
          \E res \in {FrameResult(grid, mem, input, ptr, fr,
                                   available_width, hit)} :
                /\ mem' = [state |-> Some(res.state),
                           resize_preview |-> res.preview,
                           resize_info |-> Some(res.info)]
                /\ input' = [pos |-> ptr.pos, down |-> ptr.down,
                             dragged |-> DraggedNow(input, ptr, hit),
                             handles |-> res.handles]
                /\ frame' = fr
                /\ UNCHANGED <<tb, grid>>

Init == InitGrids(Grids)

Frame ==
    FrameWith(Pointers, MeasuredWidths(Len(grid.columns)), AutoSizeRequests,
              {FALSE}, AvailableWidths)

Next == Frame

Spec == Init /\ [][Next]_vars

\* ---- SpecTwo: grids with two resizable columns
Columns3 ==
    <<at_most(at_least(ColumnInitial(1), 1), 2),
      at_most(at_least(ColumnInitial(1), 1), 2)>>

GridsTwo ==
    {NewGrid(Columns3, mode, hd) : mode \in {"Live", "Deferred"},
                                   hd \in BOOLEAN}

InitTwo == InitGrids(GridsTwo)

FrameTwo ==
    FrameWith(Pointers, MeasuredWidths(Len(grid.columns)), AutoSizeRequests,
              {FALSE}, {MaxX})

NextTwo == FrameTwo

SpecTwo == InitTwo /\ [][NextTwo]_vars

\* ---- SpecSizing: frames without pointer input, in which the application
\* may hand a different column list, content and available width to every
\* frame and the enclosing UI may be in a sizing pass
ColumnsAuto == <<resizable(at_most(ColumnAutoWithInitialSuggestion(1), 3), FALSE)>>

ColumnsFixed ==
    <<at_most(at_least(ColumnInitial(2), 1), 3),
      resizable(range(ColumnRemainder, 1, 4), FALSE),
      resizable(ColumnExact(1), FALSE)>>

ColumnLists == {ColumnsAuto, Columns2, ColumnsFixed}

GridsSizing == {NewGrid(columns, "Live", hd) : columns \in ColumnLists, hd \in BOOLEAN}

NoPointer == [pos |-> None, down |-> FALSE]

\* every column reports its own content width
MeasuredPerColumn(n) == [1..n -> ContentWidths]

InitSizing == InitGrids(GridsSizing)

\* the frame's inputs with Table.available_width, Table.is_sizing_pass and
\* whether TableState::load filtered out a stored state of another length
FrameSeen(fr, available_width, loaded, stored, columns) ==
    [measured |-> fr.measured, parent_sizing |-> fr.parent_sizing, auto |-> fr.auto, available_width |-> available_width, is_sizing_pass |-> loaded.is_sizing_pass, discarded |-> stored.some /\ Len(stored.v.column_widths) # Len(columns)]

SizingFrameOf(g, fr, available_width) ==
    \E res \in {FrameResult(g, mem, input, NoPointer, fr, available_width, None)} :
    \E loaded \in {TableStateLoad(mem.state, g.resizable, FrameColumns(g, fr.auto), available_width_for_sizing(g, available_width), fr.parent_sizing, g.item_spacing_x)} :
        /\ mem' = [state |-> Some(res.state),
                   resize_preview |-> res.preview,
                   resize_info |-> Some(res.info)]
        /\ input' = [pos |-> None, down |-> FALSE, dragged |-> None,
                     handles |-> res.handles]
        /\ frame' = FrameSeen(fr, available_width, loaded, mem.state, g.columns)
        /\ grid' = g
        /\ UNCHANGED tb

SizingFrame ==
    \E columns \in ColumnLists, auto \in AutoSizeRequests,
       parent_sizing \in BOOLEAN, available_width \in AvailableWidths :
    \E measured \in MeasuredPerColumn(Len(columns)) :
        SizingFrameOf([grid EXCEPT !.columns = columns],
                      [measured |-> measured, parent_sizing |-> parent_sizing,
                       auto |-> auto],
                      available_width)

NextSizing == SizingFrame

SpecSizing == InitSizing /\ [][NextSizing]_vars

\* ---- SpecClick: grids with a header whose strips can be double-clicked.
\* An egui::Id is the chain of salts hashed into it; two chains that differ
\* give different ids.
IdWith(id, salt) == Append(id, salt)

ui_id == <<"ui">>

\* TableBuilder::new: id_salt
id_salt == "__table_state"

state_id == IdWith(ui_id, id_salt)

\* the id under which Table::body and the header register the strip of
\* column i with ui.interact
column_resize_id(i) == IdWith(IdWith(state_id, "resize_column"), ToString(i))

\* the id under which TableBuilder::header looks up the double-click
header_lookup_id(i) == IdWith(IdWith(ui_id, "resize_column"), ToString(i))

\* Context::read_response: the response of the widget with that id
read_response(responses, id) ==
    IF \E r \in responses : r.id = id
    THEN Some(CHOOSE r \in responses : r.id = id)
    ELSE None

\* TableBuilder::header: the columns whose flag the look-up sets
HeaderDoubleClicks(g, responses) ==
    IF g.has_header
    THEN {i \in 1..Len(g.columns) :
            /\ read_response(responses, header_lookup_id(i)).some
            /\ read_response(responses, header_lookup_id(i)).v.double_clicked}
    ELSE {}

\* the responses of the strips a frame has registered
StripResponses(handles, double_click, hit) ==
    {[id |-> column_resize_id(h[1]),
      double_clicked |-> double_click /\ hit = Some(h[1])] : h \in handles}

\* a double-click is reported on the frame of a release without movement
DoubleClicks(inp, ptr) ==
    IF primary_released(inp, ptr) /\ ptr.pos = inp.pos THEN BOOLEAN
    ELSE {FALSE}

GridsClick ==
    {[NewGrid(Columns1, mode, TRUE) EXCEPT !.resizable_body = rb] :
        mode \in {"Live", "Deferred"}, rb \in BOOLEAN}

InitClick ==
    /\ tb = IdleBody
    /\ grid \in GridsClick
    /\ mem = [state |-> None, resize_preview |-> DefaultResizePreview,
              resize_info |-> None]
    /\ input = [pos |-> None, down |-> FALSE, dragged |-> None,
                handles |-> {}, responses |-> {}]
    /\ frame = NoFrame

ClickFrameOf(ptr, double_click, hit, fr, available_width) ==
    \E res \in {FrameResult(grid, mem, input, ptr, fr, available_width, hit)} :
        /\ mem' = [state |-> Some(res.state),
                   resize_preview |-> res.preview,
                   resize_info |-> Some(res.info)]
        /\ input' = [pos |-> ptr.pos, down |-> ptr.down,
                     dragged |-> DraggedNow(input, ptr, hit),
                     handles |-> res.handles,
                     responses |-> StripResponses(res.handles, double_click,
                                                  hit)]
        /\ frame' = fr
        /\ UNCHANGED <<tb, grid>>

\* TableBuilder::header(..).body(..), once
ClickFrame ==
    \E ptr \in Pointers, measured \in MeasuredWidths(Len(grid.columns)),
       requested \in AutoSizeRequests, available_width \in {MaxX} :
    \E double_click \in DoubleClicks(input, ptr) :
    \E hit \in (IF HitHandles(input, ptr) = {} THEN {None}
                ELSE {Some(h[1]) : h \in HitHandles(input, ptr)}) :
        ClickFrameOf(ptr, double_click, hit,
                     [measured |-> measured, parent_sizing |-> FALSE,
                      auto |-> requested
                                 \cup HeaderDoubleClicks(grid,
                                                         input.responses)],
                     available_width)

NextClick == ClickFrame

SpecClick == InitClick /\ [][NextClick]_vars

\* ======================================================================
\* Row border resizing (row_resize.rs): RowResizeState, RowResizeConfig and
\* handle_row_resize, which the application calls once for every row it has
\* emitted in a frame.  Lengths are whole numbers.
\* grid holds the RowResizeConfig, mem the RowResizeState and the drag
\* flags kept in the temporary data of the UI, input the pointer of the
\* frame, frame the rows still to be handled and the last call made.
\* ======================================================================

\* ---- bounds
MaxPointerY == 1

\* the rows of the grid: two neighbours
RowIndices == {0, 1}

\* the threshold 0.01 of a drag, in hundredths
drag_epsilon_x100 == 1

Abs(x) == IF x < 0 THEN 0 - x ELSE x

\* ---- RowResizeState: row_heights maps a row to Some(height) or None
RowResizeStateDefault ==
    [row_heights |-> [r \in RowIndices |-> None], dragging_row |-> None]

get_row_height(state, row_index, default_height_arg) ==
    IF state.row_heights[row_index].some THEN state.row_heights[row_index].v
    ELSE default_height_arg

set_row_height(state, row_index, height) ==
    [state EXCEPT !.row_heights[row_index] = Some(height)]

\* a reset that stores a height of zero for the row
reset_row_height_to_zero(state, row_index) ==
    [state EXCEPT !.row_heights[row_index] = Some(0)]

reset_row_height(state, row_index) ==
    [state EXCEPT !.row_heights[row_index] = None]

reset_all(state) ==
    [state EXCEPT !.row_heights = [r \in RowIndices |-> None]]

is_dragging(state) == state.dragging_row.some

dragging_row(state) == state.dragging_row

\* ---- RowResizeConfig
RowResizeConfigDefault ==
    [enabled |-> FALSE, default_height |-> 20, height_range |-> Rangef(10, INFINITY), grab_radius |-> 5, resize_in_body |-> FALSE]

RowResizeConfigEnabled == [RowResizeConfigDefault EXCEPT !.enabled = TRUE]

default_height(config, height) == [config EXCEPT !.default_height = height]

height_range(config, r) == [config EXCEPT !.height_range = r]

resize_in_body(config, enable) == [config EXCEPT !.resize_in_body = enable]

grab_radius(config, radius) == [config EXCEPT !.grab_radius = radius]

\* ---- handle_row_resize
\* Rect::from_min_max(p0, p1).expand2((0, grab_radius)).contains(pos)
InteractRectContains(pos, row_bottom_y, left_x, right_x, radius) ==
    /\ left_x <= pos.x /\ pos.x <= right_x
    /\ row_bottom_y - radius <= pos.y /\ pos.y <= row_bottom_y + radius

pointer_in_rect(inp, row_bottom_y, left_x, right_x, radius) ==
    inp.pos.some /\ InteractRectContains(inp.pos.v, row_bottom_y, left_x, right_x, radius)

\* the flag stored under drag_key for the row
was_dragging(row_drag, row_index) ==
    row_drag[row_index].some /\ row_drag[row_index].v

\* is_dragging of the call
RowIsDragging(inp, in_rect, was) ==
    IF inp.pressed /\ in_rect THEN TRUE
    ELSE IF was /\ inp.down THEN TRUE
    ELSE FALSE

\* state.dragging_row after the drag has been tracked
RowTrackDrag(state, inp, in_rect, was, row_index) ==
    IF inp.pressed /\ in_rect
    THEN [state EXCEPT !.dragging_row = Some(row_index)]
    ELSE IF was /\ inp.down THEN state
    ELSE IF was THEN [state EXCEPT !.dragging_row = None]
    ELSE state

\* a drag that writes whatever the change is
RowApplyDragAlways(state, config, row_index, current_height, updated_height) ==
    [state |-> set_row_height(state, row_index, updated_height), new_height |-> Some(updated_height)]

\* the drag of a row by the pointer delta: state, new_height
RowApplyDrag(state, config, row_index, current_height, updated_height) ==
    IF 100 * Abs(updated_height - current_height) > drag_epsilon_x100
    THEN [state |-> set_row_height(state, row_index, updated_height), new_height |-> Some(updated_height)]
    ELSE [state |-> state, new_height |-> None]

RowHandleDrag(state, inp, config, row_index, dragging) ==
    IF dragging
    THEN RowApplyDrag(state, config, row_index, get_row_height(state, row_index, config.default_height), RangefClamp(config.height_range, get_row_height(state, row_index, config.default_height) + inp.delta_y))
    ELSE [state |-> state, new_height |-> None]

RowHandled(row_drag, row_index, dragging, done) ==
    [state |-> done.state, row_drag |-> [row_drag EXCEPT ![row_index] = Some(dragging)], new_height |-> done.new_height]

RowInteract(inp, state, row_drag, config, row_index, in_rect, was) ==
    RowHandled(row_drag, row_index, RowIsDragging(inp, in_rect, was), RowHandleDrag(RowTrackDrag(state, inp, in_rect, was, row_index), inp, config, row_index, RowIsDragging(inp, in_rect, was)))

\* a handler that lets every cell of an enabled grid resize the row
handle_row_resize_any_cell(inp, state, row_drag, config, row_index, row_bottom_y, left_x, right_x, is_header) ==
    IF ~config.enabled
    THEN [state |-> state, row_drag |-> row_drag, new_height |-> None]
    ELSE RowInteract(inp, state, row_drag, config, row_index, pointer_in_rect(inp, row_bottom_y, left_x, right_x, config.grab_radius), was_dragging(row_drag, row_index))

\* handle_row_resize: state, row_drag, new_height
handle_row_resize(inp, state, row_drag, config, row_index, row_bottom_y, left_x, right_x, is_header) ==
    IF ~config.enabled
    THEN [state |-> state, row_drag |-> row_drag, new_height |-> None]
    ELSE IF ~is_header /\ ~config.resize_in_body
    THEN [state |-> state, row_drag |-> row_drag, new_height |-> None]
    ELSE RowInteract(inp, state, row_drag, config, row_index, pointer_in_rect(inp, row_bottom_y, left_x, right_x, config.grab_radius), was_dragging(row_drag, row_index))

\* ---- the application: in every frame it emits some of its rows and calls
\* handle_row_resize once for each of them, in any order, with the rectangle
\* of the row; between frames it may set and reset heights
pointer_x == 1

RowConfigs ==
    {RowResizeConfigDefault} \cup {resize_in_body(grab_radius(height_range(default_height(RowResizeConfigEnabled, 3), Rangef(2, 4)), 1), b) : b \in BOOLEAN}

RowPointerPositions ==
    {None} \cup {Some([x |-> pointer_x, y |-> y]) : y \in 0..MaxPointerY}

RowPointers == [pos : RowPointerPositions, down : BOOLEAN]

\* the bottom border of a row on screen: row_bottom_y, left_x, right_x
RowBorders ==
    [row_bottom_y : {0, 2}, left_x : {0}, right_x : {0, pointer_x}]

\* the heights an application sets: the default height, one above the range
SetHeights == {3, 5}

RowCallNone ==
    [op |-> "none", row_index |-> 0, is_header |-> FALSE, in_rect |-> FALSE, new_height |-> None]

InitRow ==
    /\ tb = IdleBody
    /\ grid \in RowConfigs
    /\ mem = [state |-> RowResizeStateDefault, row_drag |-> [r \in RowIndices |-> None]]
    /\ input = [pos |-> None, down |-> FALSE, pressed |-> FALSE, delta_y |-> 0]
    /\ frame = [pending |-> {}, call |-> RowCallNone]

RowPointerDeltaY(inp, ptr) ==
    IF ptr.pos.some /\ inp.pos.some THEN ptr.pos.v.y - inp.pos.v.y ELSE 0

\* a new frame: the pointer moves, the application emits some rows
RowBeginFrame ==
    /\ frame.pending = {}
    /\ \E ptr \in RowPointers, emitted \in (SUBSET RowIndices) \ {{}} :
         /\ input' = [pos |-> ptr.pos, down |-> ptr.down, pressed |-> ptr.down /\ ~input.down, delta_y |-> RowPointerDeltaY(input, ptr)]
         /\ frame' = [pending |-> emitted, call |-> [RowCallNone EXCEPT !.op = "frame"]]
    /\ UNCHANGED <<tb, grid, mem>>

RowHandleOf(row_index, is_header, in_rect, res) ==
    /\ mem' = [state |-> res.state, row_drag |-> res.row_drag]
    /\ frame' = [pending |-> frame.pending \ {row_index}, call |-> [op |-> "handle_row_resize", row_index |-> row_index, is_header |-> is_header, in_rect |-> in_rect, new_height |-> res.new_height]]
    /\ UNCHANGED <<tb, grid, input>>

\* handle_row_resize for one of the emitted rows
HandleRowResize ==
    \E row_index \in frame.pending, is_header \in BOOLEAN, border \in RowBorders :
        RowHandleOf(row_index, is_header, pointer_in_rect(input, border.row_bottom_y, border.left_x, border.right_x, grid.grab_radius), handle_row_resize(input, mem.state, mem.row_drag, grid, row_index, border.row_bottom_y, border.left_x, border.right_x, is_header))

RowApiCall(op, row_index, state) ==
    /\ frame.pending = {}
    /\ mem' = [mem EXCEPT !.state = state]
    /\ frame' = [frame EXCEPT !.call = [RowCallNone EXCEPT !.op = op, !.row_index = row_index]]
    /\ UNCHANGED <<tb, grid, input>>

SetRowHeight ==
    \E row_index \in RowIndices, height \in SetHeights :
        RowApiCall("set_row_height", row_index, set_row_height(mem.state, row_index, height))

ResetRowHeight ==
    \E row_index \in RowIndices :
        RowApiCall("reset_row_height", row_index, reset_row_height(mem.state, row_index))

ResetAll == RowApiCall("reset_all", 0, reset_all(mem.state))

NextRow ==
    \/ RowBeginFrame
    \/ HandleRowResize
    \/ SetRowHeight
    \/ ResetRowHeight
    \/ ResetAll

SpecRow == InitRow /\ [][NextRow]_vars

\* ---- SpecHeader: grids resized from the header alone (resizable_body is
\* false), with a pointer that is over the header or over the body.  The
\* header registers its strips only when resizable_body is false and the
\* body only when it is true, so the strips of a grid all lie in one region.
StripRegion(g) == IF g.resizable_body THEN "body" ELSE "header"

PointerRegions == {"header", "body"}

\* the strips under the pointer
HitHandlesIn(g, inp, ptr, region) ==
    IF region = StripRegion(g) THEN HitHandles(inp, ptr) ELSE {}

GridsHeader ==
    {NewGrid(Columns1, mode, TRUE) : mode \in {"Live", "Deferred"}}

InitHeader == InitGrids(GridsHeader)

HeaderFrameOf(ptr, hit, fr, available_width) ==
    \E res \in {FrameResult(grid, mem, input, ptr, fr, available_width, hit)} :
        /\ mem' = [state |-> Some(res.state),
                   resize_preview |-> res.preview,
                   resize_info |-> Some(res.info)]
        /\ input' = [pos |-> ptr.pos, down |-> ptr.down,
                     dragged |-> DraggedNow(input, ptr, hit),
                     handles |-> res.handles]
        /\ frame' = fr
        /\ UNCHANGED <<tb, grid>>

\* TableBuilder::header(..).body(..), once
HeaderFrame ==
    \E ptr \in Pointers, region \in PointerRegions,
       measured \in MeasuredWidths(Len(grid.columns)),
       auto \in AutoSizeRequests, available_width \in AvailableWidths :
    \E hit \in (IF HitHandlesIn(grid, input, ptr, region) = {} THEN {None}
                ELSE {Some(h[1]) : h \in HitHandlesIn(grid, input, ptr, region)}) :
        HeaderFrameOf(ptr, hit,
                      [measured |-> measured, parent_sizing |-> FALSE,
                       auto |-> auto, available_width |-> available_width,
                       region |-> region, hit |-> hit],
                      available_width)

NextHeader == HeaderFrame

SpecHeader == InitHeader /\ [][NextHeader]_vars

\* ---- SpecRemainder: resizable grids whose last column is
\* Column::remainder() with no resizable(..) call of its own
ColumnsRemainder ==
    <<resizable(ColumnExact(1), FALSE),
      at_most(ColumnRemainder, MaxContent)>>

GridsRemainder ==
    {NewGrid(ColumnsRemainder, mode, hd) : mode \in {"Live", "Deferred"},
                                           hd \in BOOLEAN}

RemainderWidths == {2, 3}

InitRemainder == InitGrids(GridsRemainder)

\* TableBuilder::header(..).body(..) or TableBuilder::body(..), once
RemainderFrame ==
    \E ptr \in Pointers,
       measured \in MeasuredWidths(Len(grid.columns)),
       available_width \in RemainderWidths :
    \E hit \in (IF HitHandles(input, ptr) = {} THEN {None}
                ELSE {Some(h[1]) : h \in HitHandles(input, ptr)}) :
        HeaderFrameOf(ptr, hit,
                      [measured |-> measured, parent_sizing |-> FALSE,
                       auto |-> {}, available_width |-> available_width],
                      available_width)

NextRemainder == RemainderFrame

SpecRemainder == InitRemainder /\ [][NextRemainder]_vars

\* ---- SpecExact: resizable grids whose first column is Column::exact(..)
\* with a resize strip of its own; the enclosing UI may be in a sizing pass
ExactWidth == 2

ColumnsExact ==
    <<ColumnExact(ExactWidth),
      resizable(at_most(ColumnInitial(1), 2), FALSE)>>

GridsExact ==
    {NewGrid(ColumnsExact, mode, hd) : mode \in {"Live", "Deferred"},
                                       hd \in BOOLEAN}

InitExact == InitGrids(GridsExact)

ExactFrame ==
    FrameWith(Pointers, MeasuredWidths(Len(grid.columns)), AutoSizeRequests,
              BOOLEAN, AvailableWidths)

NextExact == ExactFrame

SpecExact == InitExact /\ [][NextExact]_vars

\* ---- the horizontal offset of the header region and of the body region.
\* The scrolling region is the host UI's: it is handed an offset, lets the
\* user move it while it is shown, and returns the offset it ends with.
ScrollAreaShow(offset, scroll) == IF scroll.some THEN scroll.v ELSE offset

\* the region is shown but the offset it returns is not copied back
PartScrolledNotCopied(part, scroll) == part

\* scroll_area.horizontal_scroll_offset(state.scroll_offset.x), show, and
\* the copy of the returned offset into the state
PartScrolled(part, scroll) ==
    [part EXCEPT !.state.scroll_offset_x = ScrollAreaShow(@, scroll)]

FrameScrolledDone(header, body) ==
    [state |-> body.state,
     preview |-> body.preview,
     info |-> body.info,
     handles |-> header.handles \cup body.handles,
     header_offset |-> header.state.scroll_offset_x]

FrameScrolledAfterHeader(g, columns, is_sizing_pass, header, fr, ptr, inp, hit, clip_rect, body_scroll) ==
    FrameScrolledDone(header,
                      PartScrolled(Body(g, columns, is_sizing_pass,
                                        g.has_header, header.state,
                                        header.preview, header.info,
                                        fr, ptr, inp, hit, clip_rect),
                                   body_scroll))

FrameScrolledAfterLoad(g, columns, loaded, m, fr, ptr, inp, hit, clip_rect, header_scroll, body_scroll) ==
    FrameScrolledAfterHeader(g, columns, loaded.is_sizing_pass,
                             IF g.has_header
                             THEN PartScrolled(Header(g, columns, loaded.state,
                                                      m.resize_preview, ptr,
                                                      inp, hit, clip_rect),
                                               header_scroll)
                             ELSE NoHeader(g, loaded.state, m),
                             fr, ptr, inp, hit, clip_rect, body_scroll)

\* one frame of a grid whose regions may be scrolled sideways
FrameScrolled(g, m, inp, ptr, fr, available_width, hit, header_scroll, body_scroll) ==
    FrameScrolledAfterLoad(g, FrameColumns(g, fr.auto),
                           TableStateLoad(m.state, g.resizable,
                                          FrameColumns(g, fr.auto),
                                          available_width_for_sizing(g, available_width),
                                          fr.parent_sizing, g.item_spacing_x),
                           m, fr, ptr, inp, hit, ClipRect(available_width),
                           header_scroll, body_scroll)

hscroll(g, b) == [g EXCEPT !.hscroll = b]

MaxScrollX == 1
ScrollInputs == {None} \cup {Some(v) : v \in 0..MaxScrollX}
ScrollInputsReset == {None, Some(MaxScrollX)}

\* ---- SpecReset: grids that scroll sideways, are resized with the pointer
\* and whose stored state the application may reset between two frames
ColumnsContent ==
    <<at_most(at_least(ColumnInitial(2), 1), 3),
      resizable(at_most(ColumnAutoWithInitialSuggestion(1), 2), FALSE)>>

GridsReset ==
    {hscroll(NewGrid(Columns1, "Deferred", hd), TRUE) : hd \in BOOLEAN}
      \cup {hscroll(NewGrid(ColumnsContent, "Live", TRUE), TRUE)}

NoFrameReset ==
    [measured |-> <<>>, parent_sizing |-> FALSE, auto |-> {},
     is_sizing_pass |-> FALSE, offset_in |-> 0, reset |-> FALSE]

InitReset ==
    /\ tb = IdleBody
    /\ grid \in GridsReset
    /\ mem = [state |-> None, resize_preview |-> DefaultResizePreview,
              resize_info |-> None]
    /\ input = [pos |-> None, down |-> FALSE, dragged |-> None,
                handles |-> {}]
    /\ frame = NoFrameReset

ResetAvailableWidth == MaxX

ResetFrameOf(ptr, hit, fr, body_scroll) ==
    \E res \in {FrameScrolled(grid, mem, input, ptr, fr, ResetAvailableWidth, hit, None, body_scroll)} :
    \E loaded \in {TableStateLoad(mem.state, grid.resizable, FrameColumns(grid, fr.auto), available_width_for_sizing(grid, ResetAvailableWidth), fr.parent_sizing, grid.item_spacing_x)} :
        /\ mem' = [state |-> Some(res.state),
                   resize_preview |-> res.preview,
                   resize_info |-> Some(res.info)]
        /\ input' = [pos |-> ptr.pos, down |-> ptr.down,
                     dragged |-> DraggedNow(input, ptr, hit),
                     handles |-> res.handles]
        /\ frame' = [measured |-> fr.measured, parent_sizing |-> fr.parent_sizing, auto |-> fr.auto, is_sizing_pass |-> loaded.is_sizing_pass, offset_in |-> loaded.state.scroll_offset_x, reset |-> FALSE]
        /\ UNCHANGED <<tb, grid>>

\* TableBuilder::header(..).body(..) or TableBuilder::body(..), once
ResetFrame ==
    \E ptr \in Pointers,
       measured \in MeasuredWidths(Len(grid.columns)),
       body_scroll \in ScrollInputsReset :
    \E hit \in (IF HitHandles(input, ptr) = {} THEN {None}
                ELSE {Some(h[1]) : h \in HitHandles(input, ptr)}) :
        ResetFrameOf(ptr, hit,
                     [measured |-> measured, parent_sizing |-> FALSE,
                      auto |-> {}],
                     body_scroll)

\* TableState::reset: the stored TableState of the grid is removed
TableStateReset(m) == [m EXCEPT !.state = None]

\* TableBuilder::reset, between two frames
Reset ==
    /\ mem.state.some
    /\ mem' = TableStateReset(mem)
    /\ frame' = [frame EXCEPT !.reset = TRUE]
    /\ UNCHANGED <<tb, grid, input>>

NextReset == ResetFrame \/ Reset

SpecReset == InitReset /\ [][NextReset]_vars

\* ---- TableRow::col: the cells of one row.
\* A TableRow is handed the columns and their widths; max_used_widths holds
\* the widest content seen per column, col_index the next column.
MaxCells == 4

TableRowNew(widths) ==
    [widths |-> widths,
     max_used_widths |-> [i \in 1..Len(widths) |-> 0],
     col_index |-> 0,
     response |-> None]

RectNothing == [nothing |-> TRUE, width |-> 0]
UsedRect(width) == [nothing |-> FALSE, width |-> width]

\* crate::log_or_panic!: a panic in builds with debug assertions, a log
\* line otherwise
log_or_panic(debug_assertions) == IF debug_assertions THEN "panic" ELSE "log"

\* TableRow::col that counts the cell it turns away
col_counting_overflow(row, used_width, debug_assertions) ==
    IF row.col_index < Len(row.widths)
    THEN [row |-> [row EXCEPT !.col_index = @ + 1,
                              !.max_used_widths[row.col_index + 1] = Max(@, used_width),
                              !.response = Some(TRUE)],
          rect |-> UsedRect(used_width), ran |-> TRUE, outcome |-> "cell"]
    ELSE [row |-> [row EXCEPT !.col_index = @ + 1], rect |-> RectNothing, ran |-> FALSE,
          outcome |-> log_or_panic(debug_assertions)]

\* TableRow::col; used_width is the width the cell's content used
col(row, used_width, debug_assertions) ==
    IF row.col_index < Len(row.widths)
    THEN [row |-> [row EXCEPT !.col_index = @ + 1,
                              !.max_used_widths[row.col_index + 1] = Max(@, used_width),
                              !.response = Some(TRUE)],
          rect |-> UsedRect(used_width), ran |-> TRUE, outcome |-> "cell"]
    ELSE [row |-> row, rect |-> RectNothing, ran |-> FALSE,
          outcome |-> log_or_panic(debug_assertions)]

\* ---- SpecCells: the application adds cells to the row of a grid with up
\* to three columns, possibly more cells than columns, in a build with or
\* without debug assertions
CellWidths == UNION {[1..n -> {1, 2}] : n \in 0..3}
UsedWidths == 0..MaxContent

NoCell == [calls |-> 0, rect |-> RectNothing, ran |-> FALSE, outcome |-> "none", used_width |-> 0]

InitCells ==
    /\ tb = IdleBody
    /\ grid \in [debug_assertions : BOOLEAN]
    /\ \E widths \in CellWidths : mem = TableRowNew(widths)
    /\ input = [pos |-> None, down |-> FALSE, dragged |-> None,
                handles |-> {}]
    /\ frame = NoCell

\* row.col(|ui| ..), once; after a panic the frame is over
Col ==
    /\ frame.calls < MaxCells
    /\ frame.outcome # "panic"
    /\ \E used_width \in UsedWidths :
       \E res \in {col(mem, used_width, grid.debug_assertions)} :
         /\ mem' = res.row
         /\ frame' = [calls |-> frame.calls + 1, rect |-> res.rect,
                      ran |-> res.ran, outcome |-> res.outcome,
                      used_width |-> used_width]
    /\ UNCHANGED <<tb, grid, input>>

NextCells == Col

SpecCells == InitCells /\ [][NextCells]_vars

\* ---- SpecScroll: grids with a header that scroll sideways. Every frame
\* the user may move the header region, the body region, both or neither,
\* and the application may hand over another column list.
ColumnListsScroll == {ColumnsAuto, Columns1}

GridsScroll ==
    {hscroll(NewGrid(columns, "Live", TRUE), TRUE) : columns \in ColumnListsScroll}

NoScroll == [header_scroll |-> None, body_scroll |-> None]

NoFrameScroll ==
    [measured |-> <<>>, parent_sizing |-> FALSE, auto |-> {},
     header_scroll |-> None, body_scroll |-> None, header_offset |-> 0,
     discarded |-> FALSE, before |-> NoScroll]

InitScroll ==
    /\ tb = IdleBody
    /\ grid \in GridsScroll
    /\ mem = [state |-> None, resize_preview |-> DefaultResizePreview,
              resize_info |-> None]
    /\ input = [pos |-> None, down |-> FALSE, dragged |-> None,
                handles |-> {}]
    /\ frame = NoFrameScroll

ScrollFrameOf(g, fr, header_scroll, body_scroll) ==
    \E res \in {FrameScrolled(g, mem, input, NoPointer, fr, MaxX, None, header_scroll, body_scroll)} :
        /\ mem' = [state |-> Some(res.state),
                   resize_preview |-> res.preview,
                   resize_info |-> Some(res.info)]
        /\ input' = [pos |-> None, down |-> FALSE, dragged |-> None,
                     handles |-> res.handles]
        /\ frame' = [measured |-> fr.measured, parent_sizing |-> fr.parent_sizing, auto |-> fr.auto, header_scroll |-> header_scroll, body_scroll |-> body_scroll, header_offset |-> res.header_offset, discarded |-> mem.state.some /\ Len(mem.state.v.column_widths) # Len(g.columns), before |-> [header_scroll |-> frame.header_scroll, body_scroll |-> frame.body_scroll]]
        /\ grid' = g
        /\ UNCHANGED tb

\* TableBuilder::header(..).body(..), once
ScrollFrame ==
    \E columns \in ColumnListsScroll,
       header_scroll \in ScrollInputs, body_scroll \in ScrollInputs :
    \E measured \in MeasuredWidths(Len(columns)) :
        ScrollFrameOf([grid EXCEPT !.columns = columns],
                      [measured |-> measured, parent_sizing |-> FALSE,
                       auto |-> {}],
                      header_scroll, body_scroll)

NextScroll == ScrollFrame

SpecScroll == InitScroll /\ [][NextScroll]_vars

\* ======================================================================
\* Properties of the column resize state machine and the sizing engine
\* ======================================================================

\* ---- what a finished frame shows
HasState == mem.state.some
Widths == mem.state.v.column_widths
NumColumns == Len(grid.columns)
StripOnScreen(inp, i) == \E h \in inp.handles : h[1] = i
WidthFloor(i, w, measured) ==
    IF grid.columns[i].clip THEN w ELSE Max(w, measured[i])
WidthClamp(i, w) ==
    Max(grid.columns[i].width_range.min,
        Min(grid.columns[i].width_range.max, w))

\* ---- C1
\* C1 (as claimed): in Deferred mode, while a drag on column i lasts (the
\* preview is active and the button is down at the end of the frame) the
\* stored width of i equals its value at drag start; on the frame of the
\* release the stored width becomes pending_width and the preview state
\* becomes inactive.
C1_Column == mem.resize_preview.column.v

C1_PendingOnRelease ==
    IF input'.pos.some
    THEN WidthClamp(C1_Column,
                    WidthFloor(C1_Column,
                               mem.resize_preview.start_width
                                 + (input'.pos.v
                                    - mem.resize_preview.start_pointer_x),
                               frame'.measured))
    ELSE mem.resize_preview.pending_width

C1_UnchangedWhileDragging ==
    (mem'.resize_preview.active /\ input'.down)
      => mem'.state.v.column_widths[mem'.resize_preview.column.v]
           = mem'.resize_preview.start_width

C1_ReleaseResets ==
    (mem.resize_preview.active /\ input.down /\ ~input'.down)
      => ~mem'.resize_preview.active

C1_ReleaseCommits ==
    (mem.resize_preview.active /\ input.down /\ ~input'.down)
      => mem'.state.v.column_widths[C1_Column] = C1_PendingOnRelease

C1_DeferredCommit ==
    [][grid.resize_mode = "Deferred"
         => /\ C1_UnchangedWhileDragging
            /\ C1_ReleaseResets
            /\ C1_ReleaseCommits]_vars

\* ---- C2
C2_Delta == pointer_delta_x(input, input')
C2_Dragged(i) == input'.down /\ input'.dragged = Some(i)
C2_Previous(i) == mem.state.v.column_widths[i]

\* C2 (as claimed): in Live mode, on every frame in which column i is being
\* dragged its stored width becomes clamp(previous width + pointer delta,
\* floored at the measured content width unless clip); on frames with the
\* button up the width keeps its value.
C2_Original ==
    [][(grid.resize_mode = "Live" /\ mem.state.some)
         => \A i \in 1..NumColumns :
              /\ C2_Dragged(i)
                   => mem'.state.v.column_widths[i]
                        = WidthClamp(i, WidthFloor(i, C2_Previous(i) + C2_Delta,
                                                   frame'.measured))
              /\ ~input'.down
                   => mem'.state.v.column_widths[i] = C2_Previous(i)]_vars

\* the width of column i after the per-frame clamp of the frame
C2_PerFrame(i) == WidthClamp(i, WidthFloor(i, C2_Previous(i), frame'.measured))

C2_Resizable(i) ==
    IF grid.columns[i].resizable.some THEN grid.columns[i].resizable.v
    ELSE grid.resizable

\* the frame replaces the width of column i by its clamped content width
C2_Remeasured(i) ==
    \/ grid.columns[i].initial_width.kind = "Automatic" /\ ~C2_Resizable(i)
    \/ /\ i \in frame'.auto
       /\ ~(grid.columns[i].initial_width.kind = "Automatic"
            /\ ~C2_Resizable(i))
       /\ C2_Resizable(i) /\ grid.resizable_body
       /\ StripOnScreen(input', i)

C2_Expected(i) ==
    IF C2_Remeasured(i)
    THEN WidthClamp(i, frame'.measured[i])
    ELSE IF C2_Dragged(i) /\ grid.resizable_body /\ StripOnScreen(input', i)
    THEN WidthClamp(i, WidthFloor(i, C2_PerFrame(i) + C2_Delta,
                                  frame'.measured))
    ELSE IF C2_Dragged(i) /\ ~grid.resizable_body /\ grid.has_header
    THEN WidthClamp(i, WidthFloor(i, C2_Previous(i) + C2_Delta,
                                  frame'.measured))
    ELSE C2_PerFrame(i)

\* C2 (amended): in Live mode, outside sizing passes of the enclosing UI, a
\* frame in which the strip of column i reports a drag stores
\* clamp(floor(c + pointer delta)), where floor raises to the measured
\* content width unless clip and c is the previous width for a header strip
\* and the previous width after the per-frame clamp for a body strip that
\* is on screen and has no auto-fit request; a frame with an auto-fit
\* request on an on-screen body strip stores clamp(measured); every other
\* frame (button up, strip off screen) stores the per-frame clamp of the
\* previous width, which is the previous width itself whenever the
\* measured content does not exceed it.
C2_Amended ==
    [][(grid.resize_mode = "Live" /\ mem.state.some /\ ~frame'.parent_sizing)
         => \A i \in 1..NumColumns :
              mem'.state.v.column_widths[i] = C2_Expected(i)]_vars

\* a Live drag holds column 1 below its initial width
C2_Witness ==
    /\ grid.resize_mode = "Live" /\ grid.columns = Columns1
    /\ HasState /\ input.down /\ input.dragged = Some(1)
    /\ StripOnScreen(input, 1)
    /\ frame.auto = {} /\ frame.measured[1] = 1
    /\ Widths[1] = 1

\* ---- C3
\* C3: at the end of every frame, every stored column width lies within the
\* declared [min, max] range of its column, and there is one width per
\* column.
C3_WidthsInRange ==
    HasState =>
      /\ Len(Widths) = NumColumns
      /\ \A i \in 1..NumColumns :
            /\ grid.columns[i].width_range.min <= Widths[i]
            /\ Widths[i] <= grid.columns[i].width_range.max

\* an auto-fit request arrived during a drag, with content at least as wide
\* as the column may get
C3_Witness ==
    /\ HasState /\ frame.auto = {1}
    /\ input.down /\ input.dragged = Some(1)
    /\ frame.measured[1] >= grid.columns[1].width_range.max
    /\ Widths[1] = grid.columns[1].width_range.max

\* ---- C4
\* C4 (as claimed): at the end of every frame, every column with
\* clip == false is at least as wide as the content measured for it in that
\* frame.
C4_WidthAtLeastMeasured ==
    HasState =>
      \A i \in 1..NumColumns :
        ~grid.columns[i].clip => Widths[i] >= frame.measured[i]

\* ---- C12
\* C12 (as claimed): at most one column of a grid is in a dragging state in a
\* frame (the column the pointer drags is the column of the active preview),
\* and an active ResizePreviewState for column i is never replaced by a
\* column j before the pending width of i has been committed.
C12_OneDraggingColumn ==
    (mem'.resize_preview.active /\ input'.dragged.some)
      => input'.dragged = mem'.resize_preview.column

C12_NotReplaced ==
    (mem.resize_preview.active /\ mem'.resize_preview.active)
      => mem'.resize_preview.column = mem.resize_preview.column

C12_SingleDrag ==
    [][grid.resize_mode = "Deferred"
         => C12_OneDraggingColumn /\ C12_NotReplaced]_vars

\* ---- C13
\* C13 (as claimed): whenever a Deferred drag is active and the primary button
\* is released, then at the end of that frame the width of the dragged column
\* equals pending_width and ResizePreviewState is inactive, wherever the
\* pointer is and whether or not the strip of the column is clipped out of
\* the visible area; ResizePreviewState is never active at the end of a
\* frame in which the button is up.
C13_Released == mem.resize_preview.active /\ input.down /\ ~input'.down

C13_CommitOnRelease ==
    C13_Released
      => /\ ~mem'.resize_preview.active
         /\ mem'.state.v.column_widths[mem.resize_preview.column.v]
              = C1_PendingOnRelease

C13_InactiveWhileUp == ~input'.down => ~mem'.resize_preview.active

C13_ReleaseAlwaysCommits ==
    [][grid.resize_mode = "Deferred"
         => C13_CommitOnRelease /\ C13_InactiveWhileUp]_vars

\* ---- C14
\* some column is in a dragging state at the end of the frame
C14_Dragging ==
    IF grid.resize_mode = "Live" THEN input.down /\ input.dragged.some
    ELSE mem.resize_preview.active

\* C14 (as claimed): the TableResizeInfo published at the end of a frame has
\* active = TRUE if and only if some column is in a dragging state in that
\* frame; when it is not active its column, preview_x and pending_width are
\* None; its mode is the resize mode configured for the frame; for grids
\* with and without a header.
C14_ResizeInfoTracksDrag ==
    HasState =>
      /\ mem.resize_info.some
      /\ mem.resize_info.v.active <=> C14_Dragging
      /\ ~C14_Dragging
           => /\ mem.resize_info.v.column = None
              /\ mem.resize_info.v.preview_x = None
              /\ mem.resize_info.v.pending_width = None
      /\ mem.resize_info.v.mode = grid.resize_mode

\* ---- C15
\* the stored widths do not fit the column list of the frame being run
C15_Stale ==
    mem.state.some /\ Len(mem.state.v.column_widths) # Len(grid'.columns)

\* what the frame would have stored had there been no stored state
C15_AsFirstFrame ==
    FrameResult(grid', [mem EXCEPT !.state = None], input, NoPointer, frame', frame'.available_width, None).state

\* C15: after every frame there is one stored width per declared column, and
\* a frame that finds stored widths of another length discards them and
\* stores what a first frame with the same columns, content and available
\* width stores.
C15_ColumnCount ==
    [][/\ Len(mem'.state.v.column_widths) = Len(grid'.columns)
       /\ C15_Stale => mem'.state.v = C15_AsFirstFrame]_vars

\* a frame with three columns has discarded the widths of a shorter column
\* list and stored three widths, the remainder column taking what the
\* other two leave of the available width
C15_Witness ==
    /\ HasState /\ frame.discarded
    /\ grid.columns = ColumnsFixed /\ frame.available_width = 6
    /\ frame.measured = <<1, 1, 1>> /\ ~frame.parent_sizing
    /\ Widths = <<2, 3, 1>>

\* ---- C16
\* the frame being run repeats the frame before it: same column specs, same
\* available width, same content, same enclosing UI, no pointer input
C16_Repeated ==
    /\ mem.state.some
    /\ grid' = grid
    /\ frame'.measured = frame.measured
    /\ frame'.available_width = frame.available_width
    /\ frame'.parent_sizing = frame.parent_sizing
    /\ frame'.auto = frame.auto

\* C16: the second of two consecutive frames with the same column specs, the
\* same available width, the same measured content widths and no pointer
\* input stores the column widths the first one stored, whatever was stored
\* before the first.
C16_Idempotent ==
    [][C16_Repeated
         => mem'.state.v.column_widths = mem.state.v.column_widths]_vars

\* a frame that found valid stored widths and was not a sizing pass holds the
\* measured width of the auto column and the share of the remainder column
C16_Witness ==
    /\ HasState /\ grid.columns = Columns2 /\ ~grid.has_header
    /\ ~frame.is_sizing_pass /\ ~frame.discarded
    /\ frame.measured = <<1, 1>> /\ frame.available_width = 6
    /\ Widths = <<1, 4>>

\* ---- C17
C17_IsFlexible(i) ==
    /\ grid'.columns[i].initial_width.kind = "Remainder"
    /\ ~C2_Resizable(i)

\* what the other columns leave of the available width of the frame
C17_Remainder(i) ==
    Max(0, frame'.available_width
             - SumSeq([j \in 1..Len(grid'.columns) |->
                         IF j = i THEN 0 ELSE mem'.state.v.column_widths[j]]))

\* C17 (as claimed): on a frame that is not a sizing pass and has valid
\* stored state, when the available width differs from the one of the
\* previous frame, every non-resizable Remainder column is recomputed and
\* takes up the remainder of the new available width (raised to its content
\* unless clip, clamped to its range).
C17_RemainderAbsorbs ==
    [][(/\ mem.state.some /\ grid' = grid
        /\ ~frame'.is_sizing_pass /\ ~frame'.discarded
        /\ frame'.available_width # frame.available_width)
         => \A i \in 1..Len(grid'.columns) :
              C17_IsFlexible(i)
                => mem'.state.v.column_widths[i]
                     = Max(grid'.columns[i].width_range.min,
                           Min(grid'.columns[i].width_range.max,
                               IF grid'.columns[i].clip THEN C17_Remainder(i)
                               ELSE Max(C17_Remainder(i),
                                        frame'.measured[i])))]_vars

\* ---- C18
\* the width the stored columns take up, spacing included
C18_Used == SumSeq(Widths) + grid.item_spacing_x * (NumColumns - 1)

\* a range clamp holds some column above the width it would get
C18_PinnedToMinimum ==
    \E i \in 1..NumColumns :
        /\ grid.columns[i].width_range.min > 0
        /\ Widths[i] = grid.columns[i].width_range.min

\* C18 (as claimed): for every column list and available width the stored
\* widths satisfy available_width <= sum(column_widths) + spacing*(n-1)
\* (epsilon is zero on whole numbers), and the sum exceeds the available
\* width only when a range clamp forces it.
C18_WidthsFillAvailable ==
    HasState =>
      /\ C18_Used >= frame.available_width
      /\ C18_Used > frame.available_width => C18_PinnedToMinimum

\* ---- C19
\* the frame being run finds stored widths that fit its column list
C19_ValidStored ==
    mem.state.some /\ Len(mem.state.v.column_widths) = Len(grid'.columns)

C19_ContentDriven ==
    \E i \in 1..Len(grid'.columns) :
        grid'.columns[i].initial_width.kind = "Automatic"

\* C19: a frame is a sizing pass exactly when the enclosing UI is in a
\* sizing pass, or there is no valid stored state and at least one column is
\* content-driven; with a non-sizing enclosing UI a frame that follows a
\* completed frame with the same number of columns is not a sizing pass.
C19_SizingPass ==
    [][/\ frame'.is_sizing_pass
            <=> (frame'.parent_sizing
                 \/ (~C19_ValidStored /\ C19_ContentDriven))
       /\ (C19_ValidStored /\ ~frame'.parent_sizing)
            => ~frame'.is_sizing_pass]_vars

\* a frame became a sizing pass because the stored widths were those of
\* another column list
C19_Witness ==
    /\ HasState /\ frame.is_sizing_pass /\ ~frame.parent_sizing
    /\ frame.discarded /\ grid.columns = Columns2

\* ---- C20
C20_ContentDriven(i) == grid.columns[i].initial_width.kind = "Automatic"

C20_Resizable(i) ==
    IF grid.columns[i].resizable.some THEN grid.columns[i].resizable.v
    ELSE grid.resizable

\* C20: at the end of every sizing-pass frame every content-driven column
\* is as wide as the content measured for it in that frame, clamped to its
\* range; at the end of every other frame this holds for every content-
\* driven column that is not resizable.
C20_ContentWidth ==
    HasState =>
      \A i \in 1..NumColumns :
        (C20_ContentDriven(i) /\ (frame.is_sizing_pass \/ ~C20_Resizable(i)))
          => Widths[i] = WidthClamp(i, frame.measured[i])

\* a later frame, not a sizing pass, has stored the content width of a
\* non-resizable content-driven column
C20_Witness ==
    /\ HasState /\ grid.columns = ColumnsAuto
    /\ ~frame.is_sizing_pass /\ ~frame.discarded
    /\ frame.measured = <<1>> /\ Widths = <<1>>
    /\ frame.available_width = 6

\* ---- C21
\* C21 (as claimed): for every column whose one-shot remeasure flag
\* (auto_size_this_frame) is set in a frame, the width stored at the end of
\* that frame is the content width measured in that frame clamped to
\* [min, max], whatever the stored width, the column's resizable setting,
\* resizable_body, the resize mode and the drag in progress; the flag is not
\* carried by the column list of the grid into the next frame.
C21_AutoFitForcesWidth ==
    HasState =>
      /\ \A i \in frame.auto : Widths[i] = WidthClamp(i, frame.measured[i])
      /\ \A i \in 1..NumColumns : ~grid.columns[i].auto_size_this_frame

\* ---- C22
\* the strip of column i reported a double-click in the frame just finished
C22_DoubleClicked(i) ==
    \E r \in input.responses : r.id = column_resize_id(i) /\ r.double_clicked

\* C22 (as claimed): if the resize strip of column i receives a double-click
\* in one frame, then in the next frame of a grid built with a header the
\* one-shot remeasure flag of column i is set: the double-click is looked up
\* under the id under which the strip's interaction was registered.
C22_DoubleClickSetsFlag ==
    [][\A i \in 1..NumColumns :
         (grid.has_header /\ C22_DoubleClicked(i)) => i \in frame'.auto]_vars

\* ---- C23
\* the strip of column i is dragged in the frame being run, or the drag of
\* column i ends in it
C23_Dragged(i) == input.dragged = Some(i) \/ input'.dragged = Some(i)

C23_Kept(i) ==
    LET w == mem.state.v.column_widths[i]
    IN  /\ grid.columns[i].width_range.min <= w
        /\ w <= grid.columns[i].width_range.max
        /\ (grid.columns[i].clip \/ w >= frame'.measured[i])

\* C23: for a resizable column that is not being dragged and has no auto-fit
\* request, the width stored at the end of a frame that is not a sizing pass
\* equals the width stored at the end of the previous frame, whatever the
\* available width of the frame, whenever that width is within [min, max]
\* and (clip is set or it is at least the content width measured in the
\* frame).
C23_WidthKept ==
    [][(mem.state.some /\ ~frame'.parent_sizing)
         => \A i \in 1..NumColumns :
              (C2_Resizable(i) /\ ~C23_Dragged(i) /\ i \notin frame'.auto
               /\ C23_Kept(i))
                => mem'.state.v.column_widths[i]
                     = mem.state.v.column_widths[i]]_vars

\* a body-resized column keeps a width other than its initial one in a frame
\* without pointer input whose available width leaves its strip outside the
\* visible area
C23_Witness ==
    /\ HasState /\ grid.columns = Columns1 /\ ~grid.has_header
    /\ ~input.down /\ input.dragged = None /\ frame.auto = {}
    /\ frame.measured[1] = 1
    /\ Widths[1] = grid.columns[1].width_range.max
    /\ ~StripOnScreen(input, 1)

\* ======================================================================
\* Properties of row border resizing
\* ======================================================================

\* ---- what a step of the application shows
RowState == mem.state
RowCalled(op) == frame'.call.op = op
RowOverride(state, r) == state.row_heights[r]

\* ---- C24
C24_Defaults == SetHeights \cup {RowResizeConfigDefault.default_height}

\* set, then read; set, reset, then read; a state that holds no override
C24_Algebra ==
    \A r \in RowIndices, h \in SetHeights, d \in C24_Defaults :
        /\ get_row_height(set_row_height(RowState, r, h), r, d) = h
        /\ get_row_height(reset_row_height(set_row_height(RowState, r, h), r), r, d) = d
        /\ get_row_height(reset_all(set_row_height(RowState, r, h)), r, d) = d
        /\ get_row_height(RowResizeStateDefault, r, d) = d
        /\ ~RowOverride(RowState, r).some => get_row_height(RowState, r, d) = d
        /\ \A q \in RowIndices \ {r} :
              /\ get_row_height(set_row_height(RowState, r, h), q, d) = get_row_height(RowState, q, d)
              /\ get_row_height(reset_row_height(RowState, r), q, d) = get_row_height(RowState, q, d)

\* the calls the application makes, and where an override can come from
C24_Calls ==
    \A r \in RowIndices, d \in C24_Defaults :
        /\ (RowCalled("set_row_height") /\ frame'.call.row_index = r)
             => /\ RowOverride(mem'.state, r).some
                /\ \A q \in RowIndices \ {r} : RowOverride(mem'.state, q) = RowOverride(mem.state, q)
        /\ (RowCalled("reset_row_height") /\ frame'.call.row_index = r)
             => /\ get_row_height(mem'.state, r, d) = d
                /\ \A q \in RowIndices \ {r} : RowOverride(mem'.state, q) = RowOverride(mem.state, q)
        /\ RowCalled("reset_all") => get_row_height(mem'.state, r, d) = d
        /\ (~RowOverride(mem.state, r).some /\ RowOverride(mem'.state, r).some)
             => /\ frame'.call.row_index = r
                /\ RowCalled("set_row_height") \/ RowCalled("handle_row_resize")

\* C24: for every row r and heights h and d, after set_row_height(r, h)
\* get_row_height(r, d) is h; after a following reset_row_height(r) or
\* reset_all() it is d; a row that was never set reads back d; and
\* set_row_height and reset_row_height on r leave the value read for every
\* other row as it was.
C24_RoundTrip == [](C24_Algebra) /\ [][C24_Calls]_vars

\* row 0 has just been reset while row 1 holds a height only set_row_height
\* can have stored
C24_Witness ==
    /\ frame.call.op = "reset_row_height" /\ frame.call.row_index = 0
    /\ ~RowOverride(RowState, 0).some
    /\ RowOverride(RowState, 1) = Some(5)

\* ---- C25
\* the step is a call of handle_row_resize for row r that gets past the
\* early returns
C25_Handled(r) ==
    /\ RowCalled("handle_row_resize") /\ frame'.call.row_index = r
    /\ grid.enabled /\ (frame'.call.is_header \/ grid.resize_in_body)

C25_FlagSet(row_drag, r) == row_drag[r].some /\ row_drag[r].v

C25_Starts(r) ==
    (C25_Handled(r) /\ input.pressed /\ frame'.call.in_rect)
      => C25_FlagSet(mem'.row_drag, r) /\ dragging_row(mem'.state) = Some(r)

C25_Stays(r) ==
    (C25_Handled(r) /\ C25_FlagSet(mem.row_drag, r) /\ input.down)
      => C25_FlagSet(mem'.row_drag, r)

C25_Ends(r) ==
    (C25_Handled(r) /\ C25_FlagSet(mem.row_drag, r) /\ ~input.down)
      => ~C25_FlagSet(mem'.row_drag, r) /\ dragging_row(mem'.state) = None

\* no row is being dragged at the end of a frame in which the button is up
C25_IdleWhileUp ==
    (frame'.pending = {} /\ ~input'.down) => ~is_dragging(mem'.state)

\* C25 (as claimed): for an enabled row handle, a press of the primary
\* button with the pointer inside the strip of row r starts a drag and sets
\* dragging_row to r; the drag stays active on every following frame while
\* the button is down, wherever the pointer is; on the first frame with the
\* button up the drag ends and dragging_row becomes None, so that
\* is_dragging() is false whenever the button is up.
C25_DragLifecycle ==
    [][/\ \A r \in RowIndices : C25_Starts(r) /\ C25_Stays(r) /\ C25_Ends(r)
       /\ C25_IdleWhileUp]_vars

\* ---- C26
\* the step is a call for row r in which the row is being dragged
C26_Dragging(r) == C25_Handled(r) /\ C25_FlagSet(mem'.row_drag, r)

C26_Current(r) == get_row_height(mem.state, r, grid.default_height)

C26_New(r) ==
    Max(grid.height_range.min, Min(grid.height_range.max, C26_Current(r) + input.delta_y))

C26_Written(r) ==
    /\ RowOverride(mem'.state, r) = Some(C26_New(r))
    /\ frame'.call.new_height = Some(C26_New(r))
    /\ grid.height_range.min <= C26_New(r)
    /\ C26_New(r) <= grid.height_range.max

C26_NotWritten(r) ==
    /\ mem'.state.row_heights = mem.state.row_heights
    /\ frame'.call.new_height = None

\* C26: on each frame of a drag of row r, with current the effective height
\* of the row and new = clamp(current + pointer y delta, [min, max]): if
\* |new - current| > 0.01 the override of the row becomes new and Some(new)
\* is returned, otherwise the override map is left as it is and None is
\* returned; a height written by a drag is within [min, max] and the
\* override of no other row changes.
C26_DragWrites ==
    [][\A r \in RowIndices :
         C26_Dragging(r)
           => /\ IF 100 * Abs(C26_New(r) - C26_Current(r)) > drag_epsilon_x100
                 THEN C26_Written(r) ELSE C26_NotWritten(r)
              /\ \A q \in RowIndices \ {r} :
                   RowOverride(mem'.state, q) = RowOverride(mem.state, q)]_vars

\* a drag upwards has just brought a row to the minimum height while the
\* other row holds a height set by the application
C26_Witness ==
    /\ frame.call.op = "handle_row_resize"
    /\ input.down /\ input.delta_y < 0
    /\ frame.call.new_height = Some(grid.height_range.min)
    /\ RowOverride(RowState, frame.call.row_index) = Some(grid.height_range.min)
    /\ \E q \in RowIndices \ {frame.call.row_index} : RowOverride(RowState, q) = Some(5)

\* ---- C27
\* the step is a call of handle_row_resize that the configuration turns away
C27_TurnedAway ==
    /\ RowCalled("handle_row_resize")
    /\ ~grid.enabled \/ (~frame'.call.is_header /\ ~grid.resize_in_body)

\* C27: when row resizing is disabled, or handle_row_resize is called for a
\* cell that is not the header cell while resize_in_body is false, the call
\* returns None and changes neither the override map, nor dragging_row, nor
\* the stored drag flag of the row, whatever the pointer does.
C27_NoEffect ==
    [][C27_TurnedAway
         => /\ frame'.call.new_height = None
            /\ mem'.state.row_heights = mem.state.row_heights
            /\ mem'.state.dragging_row = mem.state.dragging_row
            /\ mem'.row_drag = mem.row_drag]_vars

\* the button was pressed inside the strip of a row of an enabled grid and
\* the call came from a body cell
C27_Witness ==
    /\ frame.call.op = "handle_row_resize"
    /\ grid.enabled /\ ~grid.resize_in_body /\ ~frame.call.is_header
    /\ input.pressed /\ frame.call.in_rect
    /\ ~is_dragging(RowState)
    /\ ~mem.row_drag[frame.call.row_index].some

\* ---- C28
\* C28 (as claimed): after any sequence of set_row_height, reset_row_height,
\* reset_all and row drags, the override map holds an entry only for rows
\* whose stored height differs from the default height.
C28_SparseOverrides ==
    \A r \in RowIndices :
        RowOverride(RowState, r).some
          => RowOverride(RowState, r).v # grid.default_height

\* ---- C29
\* the pointer is over the body in the frame being run
C29_OverBody == frame'.region = "body"

\* a press over the body, on a column border or elsewhere, drags nothing
C29_BodyInert ==
    (C29_OverBody /\ input'.down /\ ~input.down)
      => /\ input'.dragged = None
         /\ ~mem'.resize_preview.active
         /\ mem.state.some
              => \A i \in 1..NumColumns :
                   mem'.state.v.column_widths[i] = C2_PerFrame(i)

\* the same frame on the grid that is resized from its body
C29_BodyResized ==
    FrameResult([grid EXCEPT !.resizable_body = TRUE], mem, input, [pos |-> input'.pos, down |-> input'.down], frame', frame'.available_width, frame'.hit)

C29_SameAsBody ==
    /\ mem'.state.v.column_widths = C29_BodyResized.state.column_widths
    /\ mem'.resize_preview = C29_BodyResized.preview

\* one drag state for the grid: it belongs to the column the pointer drags
C29_SharedDragState ==
    (mem'.resize_preview.active /\ input'.dragged.some)
      => mem'.resize_preview.column = input'.dragged

\* C29 (as claimed): with resizable(true) and resizable_body(false), presses
\* and drags over a column border inside the body never change a column
\* width, while a drag over the same border inside the header changes the
\* width of that column with the same Live and Deferred semantics as body
\* resizing (the frame leaves the widths and the preview state that the
\* body-resized grid would leave), using one drag state per grid.
C29_HeaderResize ==
    [][(grid.resizable /\ ~grid.resizable_body)
         => C29_BodyInert /\ C29_SameAsBody /\ C29_SharedDragState]_vars

\* the part of C29 that holds on its own: the body is inert and the grid has
\* one drag state, which belongs to the dragged column
C29_InertAndShared ==
    [][(grid.resizable /\ ~grid.resizable_body)
         => C29_BodyInert /\ C29_SharedDragState]_vars

\* ---- C30
C30_Last == NumColumns

C30_LastIsRemainder ==
    /\ grid.resizable
    /\ grid.columns[C30_Last].initial_width.kind = "Remainder"
    /\ ~grid.columns[C30_Last].resizable.some

\* the last column has no resize strip
C30_NoStrip == \A h \in input'.handles : h[1] # C30_Last

\* the frame stores the width it stores with the pointer away
C30_NoDragEffect ==
    mem.state.some
      => mem'.state.v.column_widths[C30_Last] = C2_PerFrame(C30_Last)

\* what the columns before the last one and the spacing leave of the
\* available width
C30_Remainder ==
    Max(0, frame'.available_width
             - SumSeq(SubSeq(mem'.state.v.column_widths, 1, C30_Last - 1))
             - grid.item_spacing_x * (C30_Last - 1))

C30_UsesRemainder ==
    mem'.state.v.column_widths[C30_Last]
      = WidthClamp(C30_Last,
                   WidthFloor(C30_Last, C30_Remainder, frame'.measured))

\* C30 (as claimed): in a table built with resizable(true) whose last column
\* is Column::remainder() with no resizable override of its own, the last
\* column is not resizable (it has no resize strip and no drag changes its
\* width) and its width is the remainder of the available width (raised to
\* its content width, clamped to its range).
C30_LastRemainderNotResizable ==
    [][C30_LastIsRemainder
         => C30_NoStrip /\ C30_NoDragEffect /\ C30_UsesRemainder]_vars

\* the parts of C30, one by one
C30_NeverAStrip == [][C30_LastIsRemainder => C30_NoStrip]_vars
C30_NeverDragged == [][C30_LastIsRemainder => C30_NoDragEffect]_vars
C30_AlwaysRemainder == [][C30_LastIsRemainder => C30_UsesRemainder]_vars

\* ---- C31
\* C31: a column built with Column::exact(w) has stored width exactly w at
\* the end of every frame, whatever the drags (in either resize mode), the
\* auto-fit requests, the measured content widths, the sizing passes and
\* the available widths of the frames so far. (The first column of every
\* grid of SpecExact is Column::exact(ExactWidth).)
C31_ExactKeepsWidth ==
    mem.state.some => mem.state.v.column_widths[1] = ExactWidth

\* the strip of the exact column is being dragged, with the pointer away
\* from the strip and content wider than the column
C31_Witness ==
    /\ mem.state.some
    /\ input.down /\ input.dragged = Some(1) /\ input.pos.some
    /\ \A h \in input.handles : h[1] = 1 => ~HandleContains(h[2], input.pos.v)
    /\ frame.measured[1] > mem.state.v.column_widths[1]

\* ---- C32
\* no stored state of the grid: what the first frame ever finds
C32_Fresh ==
    [state |-> None, resize_preview |-> DefaultResizePreview,
     resize_info |-> None]

\* the same frame (same pointer, content and strips) as the first frame ever
C32_FirstEver ==
    FrameScrolled(grid, C32_Fresh, input, [pos |-> input'.pos, down |-> input'.down], frame', ResetAvailableWidth, input'.dragged, None, None)

C32_AfterReset == frame.reset /\ ~frame'.reset

C32_StartsAtZero == frame'.offset_in = 0

C32_SizingPass ==
    frame'.is_sizing_pass = \E i \in 1..NumColumns : is_auto(grid.columns[i])

C32_InitialWidths ==
    mem'.state.v.column_widths = C32_FirstEver.state.column_widths

\* C32 (as claimed): after reset() the next frame of the grid behaves like
\* the first frame ever: no stored layout state is found, so the scroll
\* offset starts at zero, a sizing pass is declared exactly if some column
\* is content-driven, and the widths the frame stores are the ones the
\* first frame ever stores for the same input (derived from the columns'
\* initial-size policies).
C32_ResetLikeFirstFrame ==
    [][C32_AfterReset
         => C32_StartsAtZero /\ C32_SizingPass /\ C32_InitialWidths]_vars

\* the parts of C32 that hold on their own
C32_ResetLoadsNothing ==
    [][C32_AfterReset => C32_StartsAtZero /\ C32_SizingPass]_vars

\* without a Deferred drag in progress at the reset, the frame after it
\* stores the widths of the first frame ever
C32_LikeFirstFrameUnlessDragging ==
    [][(C32_AfterReset /\ ~mem.resize_preview.active)
         => C32_InitialWidths]_vars

\* ======================================================================
\* Properties of the cells of a row
\* ======================================================================
\* ---- C33
\* the row already holds as many cells as there are columns
C33_RowFull == mem.col_index >= Len(mem.widths)

C33_NoOp ==
    /\ frame'.rect = RectNothing
    /\ ~frame'.ran
    /\ mem'.col_index = mem.col_index
    /\ mem'.max_used_widths = mem.max_used_widths

C33_Completes == frame'.outcome # "panic"

C33_ColIndexBounded == mem.col_index <= Len(mem.widths)

\* C33 (as claimed): a cell added to a row that already holds as many cells
\* as there are columns is a no-op (an empty rectangle is returned, the
\* content is not run, col_index does not advance, no measured width
\* changes), col_index never exceeds the number of columns, and the frame
\* still completes.
C33_Original ==
    /\ [](C33_ColIndexBounded)
    /\ [][C33_RowFull => C33_NoOp /\ C33_Completes]_vars

\* C33 (amended): the cell is turned away as claimed in every build, and
\* the frame still completes in a build without debug assertions; in a
\* build with debug assertions the call panics.
C33_Amended ==
    /\ [](C33_ColIndexBounded)
    /\ [][C33_RowFull
            => /\ C33_NoOp
               /\ C33_Completes <=> ~grid.debug_assertions]_vars

\* a cell too many has been turned away and the row takes further calls
C33_Witness ==
    /\ frame.calls > Len(mem.widths)
    /\ Len(mem.widths) > 0
    /\ frame.outcome = "log"
    /\ \E i \in 1..Len(mem.widths) : mem.max_used_widths[i] > 0

\* ======================================================================
\* Properties of the horizontal offset of header and body
\* ======================================================================
\* ---- C34
\* exactly one of the two regions was moved to v in the frame fr
C34_OneMovedTo(fr, v) ==
    \/ fr.header_scroll = Some(v) /\ fr.body_scroll = None
    \/ fr.header_scroll = None /\ fr.body_scroll = Some(v)

C34_Quiet(fr) == fr.header_scroll = None /\ fr.body_scroll = None

\* header offset, body offset and stored offset at the end of the frame
C34_AllAt(v) ==
    /\ frame'.header_offset = v
    /\ mem'.state.v.scroll_offset_x = v

C34_Propagated ==
    \A v \in 0..MaxScrollX :
      (C34_OneMovedTo(frame, v) /\ C34_Quiet(frame'))
        => mem.state.v.scroll_offset_x = v /\ C34_AllAt(v)

C34_Unchanged ==
    (mem.state.some /\ C34_Quiet(frame'))
      => mem'.state.v.scroll_offset_x = mem.state.v.scroll_offset_x

\* C34 (as claimed): if in frame N exactly one of header region and body
\* region moves to the offset v, then at the end of frame N the stored
\* offset is v and at the end of frame N+1 (no scroll input) header offset,
\* body offset and stored offset are all v; with no scroll input the stored
\* offset does not change from one frame to the next.
C34_Original == [][C34_Propagated /\ C34_Unchanged]_vars

\* C34 (amended): the same, for a frame N+1 that finds the stored state of
\* frame N (the number of columns has not changed in between).
C34_Amended == [][~frame'.discarded => C34_Propagated /\ C34_Unchanged]_vars

\* the frame after a move of the body alone, with no scroll input, has
\* brought the header to the body's offset
C34_Witness ==
    /\ mem.state.some
    /\ frame.before.header_scroll = None
    /\ frame.before.body_scroll = Some(mem.state.v.scroll_offset_x)
    /\ mem.state.v.scroll_offset_x > 0
    /\ C34_Quiet(frame)
    /\ ~frame.discarded
    /\ frame.header_offset = mem.state.v.scroll_offset_x

\* ---- C39
\* TableState::load of the frame, on what the previous frame stored
C39_Loaded ==
    TableStateLoad(mem.state, grid'.resizable, FrameColumns(grid', frame'.auto), available_width_for_sizing(grid', MaxX), frame'.parent_sizing, grid'.item_spacing_x)

\* C39: when the stored layout state is discarded because the number of
\* columns changed, the stored scroll offset goes with it: the frame starts
\* from offset 0, the header region is handed offset 0 (it ends where the
\* user moves it from there) and the body follows the header, whatever the
\* offset was at the end of the previous frame.
C39_OffsetDiscarded ==
    [][frame'.discarded
         => /\ C39_Loaded.state.scroll_offset_x = 0
            /\ frame'.header_offset = ScrollAreaShow(0, frame'.header_scroll)
            /\ mem'.state.v.scroll_offset_x
                 = ScrollAreaShow(frame'.header_offset, frame'.body_scroll)]_vars

\* the body had been moved away from 0 in the frame before the one that
\* discarded the state, and nothing is moved in that frame
C39_Witness ==
    /\ frame.discarded
    /\ frame.before.body_scroll.some
    /\ frame.before.body_scroll.v > 0
    /\ frame.header_scroll = None /\ frame.body_scroll = None
    /\ frame.header_offset = 0
    /\ mem.state.v.scroll_offset_x = 0

\* ======================================================================
\* Further properties of the row virtualizer
\* ======================================================================
\* ---- C35
C35_Het == tb.mode = "heterogeneous_rows"

\* the elements pulled so far are the first tb.next ones, each counted once
C35_PulledOnce ==
    C35_Het => /\ tb.next <= NumHetRows
               /\ tb.cursor_y = RowTop(tb.next)

\* a step pulls the next element or none, and leaves the sequence alone
C35_PullsInOrder ==
    C35_Het => /\ tb'.heights = tb.heights
               /\ tb'.next \in {tb.next, tb.next + 1}

C35_Exhausted ==
    (C35_Het /\ BodyReturned)
      => tb.next = NumHetRows /\ tb.cursor_y = TotalContent

\* C35: heterogeneous_rows pulls every element of the height sequence
\* exactly once and in order, never restarts or re-reads it, has exhausted
\* it when it returns, and returns for every finite sequence, scroll offset
\* and viewport height.
C35_SinglePass ==
    /\ [](C35_PulledOnce /\ C35_Exhausted)
    /\ [][C35_PullsInOrder]_vars
    /\ (C35_Het ~> BodyReturned)

\* the call has returned after rows were rendered and the rest was summed
\* up below the viewport
C35_Witness ==
    /\ C35_Het /\ BodyReturned
    /\ tb.next = NumHetRows
    /\ Len(RenderedRows) > 1
    /\ tb.height_below_visible > 0

\* ---- C36
\* a Deferred drag of column i is in progress at the end of the frame and the
\* position of the pointer is known
C36_Dragging(i) ==
    /\ grid.resize_mode = "Deferred"
    /\ mem'.resize_preview.active
    /\ mem'.resize_preview.column = Some(i)
    /\ input'.down
    /\ input'.pos.some

\* d = pointer_x - start_pointer_x
C36_D == input'.pos.v - mem'.resize_preview.start_pointer_x

C36_FromStart(i) ==
    /\ mem'.resize_preview.pending_width
         = WidthClamp(i, WidthFloor(i, mem'.resize_preview.start_width + C36_D,
                                    frame'.measured))
    /\ mem'.resize_preview.preview_x
         = mem'.resize_preview.start_handle_x + C36_D

C36_BackAtStart ==
    C36_D = 0
      => /\ mem'.resize_preview.pending_width = mem'.resize_preview.start_width
         /\ mem'.resize_preview.preview_x = mem'.resize_preview.start_handle_x

\* C36 (as claimed): during a Deferred drag, on every frame with a known
\* pointer position, pending_width = clamp(start_width + d floored at the
\* measured content width unless clip) and preview_x = start_handle_x + d,
\* with d the distance of the pointer from where the drag started; with the
\* pointer back at its start position pending_width is start_width and
\* preview_x is start_handle_x.
C36_PendingFromStart ==
    [][\A i \in 1..NumColumns :
         C36_Dragging(i) => C36_FromStart(i) /\ C36_BackAtStart]_vars

\* the strip of column i ran its Deferred update in the frame: it is on
\* screen and no auto-fit replaced the update
C36_Updated(i) ==
    /\ StripOnScreen(input', i)
    /\ i \notin frame'.auto

\* the same, for the preview line alone
C36_PreviewLine ==
    [][\A i \in 1..NumColumns :
         (C36_Dragging(i) /\ C36_Updated(i))
           => mem'.resize_preview.preview_x
                = mem'.resize_preview.start_handle_x + C36_D]_vars

\* in grids whose strips are in the body, wherever the strip was updated
C36_BodyFromStart ==
    [][\A i \in 1..NumColumns :
         (C36_Dragging(i) /\ C36_Updated(i) /\ ~grid.has_header)
           => C36_FromStart(i)]_vars

\* in grids whose strips are in the header the floor is the stored
\* max_used_widths of the table state, not the content of the frame
C36_HeaderFromStart ==
    [][\A i \in 1..NumColumns :
         (C36_Dragging(i) /\ C36_Updated(i) /\ grid.has_header)
           => C36_FromStart(i)]_vars

\* with the pointer back at its start, wherever the strip was updated
C36_BackAtStartUpdated ==
    [][\A i \in 1..NumColumns :
         (C36_Dragging(i) /\ C36_Updated(i)) => C36_BackAtStart]_vars

\* ---- C37
C37_Preview == mem.resize_preview

\* an active preview names a declared column of a Deferred grid
C37_ActiveNamesColumn ==
    C37_Preview.active
      => /\ C37_Preview.column.some
         /\ C37_Preview.column.v \in 1..NumColumns
         /\ grid.resize_mode = "Deferred"

\* the button has been down on every frame since the drag started
C37_ButtonHeld == C37_Preview.active => input.down

C37_InactiveIsDefault ==
    ~C37_Preview.active => C37_Preview = DefaultResizePreview

C37_NeverInLive == grid.resize_mode = "Live" => ~C37_Preview.active

\* C37 (as claimed): in every reachable state ResizePreviewState is active
\* only while a Deferred drag is in progress: active implies that column is
\* Some(i) with i a declared column, that the grid is in Deferred mode and
\* that the primary button has not been released since the drag started;
\* when inactive all its fields hold their defaults; in a Live grid it is
\* never active.
C37_ActiveOnlyWhileDragging ==
    /\ C37_ActiveNamesColumn
    /\ C37_ButtonHeld
    /\ C37_InactiveIsDefault
    /\ C37_NeverInLive

\* everything the claim says but the held button
C37_ValidButForButton ==
    /\ C37_ActiveNamesColumn
    /\ C37_InactiveIsDefault
    /\ C37_NeverInLive

\* ---- C38
\* ceil(viewport_height / row_pitch) + 2
C38_Bound == CeilDiv(tb.max_height, row_height_with_spacing(tb)) + 2

\* C38: in uniform-height mode a call of rows() renders at most
\* ceil(viewport_height / row_pitch) + 2 rows, whatever total_rows and the
\* scroll offset are.
C38_RenderedBounded ==
    tb.mode = "rows" => Len(RenderedRows) <= C38_Bound

\* witness: the bound is met with rows skipped above and more rows declared
\* than the bound allows
C38_Witness ==
    /\ tb.mode = "rows" /\ BodyReturned
    /\ tb.scroll_offset_y > 0
    /\ Len(RenderedRows) = C38_Bound
    /\ tb.total_rows > C38_Bound

\* ---- C40
\* the rows whose drag flag is set
C40_Flagged == {r \in RowIndices : C25_FlagSet(mem.row_drag, r)}

\* every emitted row of the frame has been handled
C40_FrameOver == frame.pending = {}

C40_AtMostOne == Cardinality(C40_Flagged) <= 1

C40_DraggingRowIsFlagged ==
    /\ \A r \in RowIndices : dragging_row(RowState) = Some(r) <=> r \in C40_Flagged
    /\ C40_Flagged = {} => dragging_row(RowState) = None

\* C40 (as claimed): after any sequence of frames in which handle_row_resize
\* is called for the emitted rows in any order, at most one row has its drag
\* flag set, and dragging_row is Some(r) exactly when the drag flag of row r
\* is set (None when no flag is set).
C40_OneDraggedRow ==
    C40_FrameOver => C40_AtMostOne /\ C40_DraggingRowIsFlagged

\* the two parts, each alone
C40_OneFlag == C40_FrameOver => C40_AtMostOne
C40_RowMatchesFlag == C40_FrameOver => C40_DraggingRowIsFlagged

\* dragging_row never names a row whose flag is not set
C40_NamedRowIsFlagged ==
    C40_FrameOver
      => \A r \in RowIndices : dragging_row(RowState) = Some(r) => r \in C40_Flagged

====
